---- MODULE Spec2Model ----
(***************************************************************************)
(* recode-engine: processing steps (step.py), their helpers (utils.py)     *)
(* and the sprint scheduler ProcessingStep_execute (step.py).              *)
(*                                                                         *)
(* The specifications share one heap of step instances and one file system:*)
(*   Spec      one call ProcessingStep_execute(base_step)                  *)
(*   FairSpec  Spec with weak fairness of the interpreter making progress  *)
(*   StepSpec  a client that constructs steps, calls run() and reads       *)
(*             `result` directly (as test01/test02 of step.py do)          *)
(*   CtorSpec  a client that constructs steps from arbitrary parameters    *)
(***************************************************************************)
EXTENDS Integers, Sequences, FiniteSets, TLC

VARIABLES
    steps,          \* heap of ProcessingStep instances, instance id = index
    children,       \* abstract steps: the steps a run() emits as next_sprint_steps
    emits,          \* abstract steps: whether a run() yields an output_media_file
    cwd_files,      \* files present in the current directory
    wd_files,       \* files present in the WorkingDirectory
    nfiles,         \* number of paths WorkingDirectory.new_file has handed out
    pc,             \* position in ProcessingStep_execute
    current_sprint, \* step.py:330
    next_sprint,    \* step.py:343
    todo,           \* steps of current_sprint the for loop has yet to visit
    output_files,   \* step.py:332
    sprint_id,      \* step.py:331
    returned,       \* value the execute call handed to its caller
    raised,         \* exception that left the execute call ("none" if none)
    log,            \* history: every run() call, in order
    sprint_members, \* history: current_sprint at the start of each sprint
    last            \* StepSpec: the client's last call and how it ended

vars == <<steps, children, emits, cwd_files, wd_files, nfiles, pc,
          current_sprint, next_sprint, todo, output_files, sprint_id,
          returned, raised, log, sprint_members, last>>

heap == <<steps, cwd_files, wd_files, nfiles>>
graph == <<children, emits>>
sched == <<pc, current_sprint, next_sprint, todo, output_files, sprint_id,
           returned, raised, sprint_members>>

----------------------------------------------------------------------------
(* Bounds *)

\* number of abstract step instances in a step graph
NSteps == 3
\* stats-file names stream0_passlog_<i>, i in 0..MaxStale, may pre-exist
MaxStale == 1
\* StepSpec: instances the client may hold, run() calls it may make
MaxInst == 2
MaxRuns == 3
\* CtorSpec: instances the client may hold
MaxCtor == 1

----------------------------------------------------------------------------
(* Values *)

Kinds == {"generic", "mkvmerge", "simple", "twopass"}

\* how an external command (or an abstract run) may end: it succeeds and
\* writes its files, it exits non-zero, it exits zero without its files
Outcomes == {"ok", "fail", "nofile"}

\* a path: n names the file, t its suffix / role
File(t, n) == [t |-> t, n |-> n]

\* the result dict; an absent key is the empty set
Result(omf, nss) == [output_media_file |-> omf, next_sprint_steps |-> nss]
EmptyResult == Result({}, {})

NoPath == File("", 0)

StepRec(k, f2p, out) ==
    [kind |-> k, ffmpeg2pass |-> f2p, output |-> out,
     has_result |-> FALSE, result |-> EmptyResult]

Insts == 1..Len(steps)

----------------------------------------------------------------------------
(* utils.py *)

ffmpeg2pass_file_names(name) ==
    {File("-0.log", name), File("-0.log.mbtree", name)}

\* idx is bumped once per existing file of <base>_0; `continue` resumes the
\* for loop, so the name returned is never itself tested
get_valid_ffmpeg2pass_name(cwd) ==
    LET i1 == IF File("-0.log", 0) \in cwd THEN 1 ELSE 0
        i2 == IF File("-0.log.mbtree", 0) \in cwd THEN i1 + 1 ELSE i1
    IN  i2

----------------------------------------------------------------------------
(* run() of each step kind, as a function of the state and of how the     *)
(* external command ends.  The effect record says what the call did:      *)
(*   err    the exception raised ("none": run() returned)                 *)
(*   cmds   external commands executed                                    *)
(*   set    whether _result was assigned, and res the value               *)
(*   cwd, wd, nfiles  the file system afterwards                          *)
(*   spawn  the step instances constructed by the call                    *)

Effect(err, cmds, res, cwd, wd, nf, spawn) ==
    [err |-> err, cmds |-> cmds, set |-> (err = "none"), res |-> res,
     cwd |-> cwd, wd |-> wd, nfiles |-> nf, spawn |-> spawn]

\* an abstract ProcessingStep subclass: run() sets result or raises
GenericRun(s, oc) ==
    LET out == File("stream", nfiles)
    IN  IF oc = "ok"
        THEN Effect("none", 1,
                    Result(IF emits[s] THEN {out} ELSE {}, children[s]),
                    cwd_files,
                    IF emits[s] THEN wd_files \cup {out} ELSE wd_files,
                    IF emits[s] THEN nfiles + 1 ELSE nfiles, <<>>)
        ELSE Effect("RuntimeError", 1, EmptyResult, cwd_files, wd_files,
                    nfiles, <<>>)

\* (faulty variant) _result is assigned before the command is executed and checked
MKVMergeRunEarlyResult(s, oc) ==
    LET out == steps[s].output
        cwd1 == IF oc = "ok" THEN cwd_files \cup {out} ELSE cwd_files
    IN  IF oc /= "fail" /\ out \in cwd1
        THEN Effect("none", 1, Result({out}, {}), cwd1, wd_files, nfiles, <<>>)
        ELSE [Effect("RuntimeError", 1, Result({out}, {}), cwd1, wd_files,
                     nfiles, <<>>) EXCEPT !.set = TRUE]

MKVMergeRun(s, oc) ==
    LET out == steps[s].output
        cwd1 == IF oc = "ok" THEN cwd_files \cup {out} ELSE cwd_files
    IN  IF oc /= "fail" /\ out \in cwd1
        THEN Effect("none", 1, Result({out}, {}), cwd1, wd_files, nfiles, <<>>)
        ELSE Effect("RuntimeError", 1, EmptyResult, cwd1, wd_files, nfiles, <<>>)

FFmpegSimpleRun(s, oc) ==
    LET out == File("stream", nfiles)
    IN  IF oc = "ok"
        THEN Effect("none", 1, Result({out}, {}), cwd_files,
                    wd_files \cup {out}, nfiles + 1, <<>>)
        ELSE Effect("RuntimeError", 1, EmptyResult, cwd_files, wd_files,
                    nfiles + 1, <<>>)

second_step(s) == steps[s].ffmpeg2pass /= {}

\* (faulty variant) the next step is built from self.parameters as they are, without
\* the ffmpeg2pass entry
TwoPassFirstNoName(s, oc) ==
    LET name == get_valid_ffmpeg2pass_name(cwd_files)
        files == ffmpeg2pass_file_names(name)
        cwd1 == IF oc = "ok" THEN cwd_files \cup files ELSE cwd_files
        next_step == StepRec("twopass", {}, NoPath)
    IN  IF oc /= "fail" /\ files \subseteq cwd1
        THEN Effect("none", 1, Result({}, {Len(steps) + 1}),
                    cwd1 \ files, wd_files \cup files, nfiles, <<next_step>>)
        ELSE Effect("RuntimeError", 1, EmptyResult, cwd1, wd_files, nfiles, <<>>)

TwoPassFirst(s, oc) ==
    LET name == get_valid_ffmpeg2pass_name(cwd_files)
        files == ffmpeg2pass_file_names(name)
        cwd1 == IF oc = "ok" THEN cwd_files \cup files ELSE cwd_files
        next_step == StepRec("twopass", {name}, NoPath)
    IN  IF oc /= "fail" /\ files \subseteq cwd1
        THEN Effect("none", 1, Result({}, {Len(steps) + 1}),
                    cwd1 \ files, wd_files \cup files, nfiles, <<next_step>>)
        ELSE Effect("RuntimeError", 1, EmptyResult, cwd1, wd_files, nfiles, <<>>)

\* copying the stats files back (step.py:299-303), file by file: a file
\* the WorkingDirectory lacks is unlinked from the CWD and the read raises
TwoPassSecond(s, oc) ==
    LET out == File("stream", nfiles)
        name == CHOOSE n \in steps[s].ffmpeg2pass : TRUE
        f1 == File("-0.log", name)
        f2 == File("-0.log.mbtree", name)
        cwd1 == cwd_files \cup {f1, f2}
    IN  IF f1 \notin wd_files
        THEN Effect("FileNotFoundError", 0, EmptyResult, cwd_files \ {f1},
                    wd_files, nfiles + 1, <<>>)
        ELSE IF f2 \notin wd_files
        THEN Effect("FileNotFoundError", 0, EmptyResult,
                    (cwd_files \cup {f1}) \ {f2}, wd_files, nfiles + 1, <<>>)
        ELSE IF oc = "ok"
        THEN Effect("none", 1, Result({out}, {}), cwd1, wd_files \cup {out},
                    nfiles + 1, <<>>)
        ELSE Effect("RuntimeError", 1, EmptyResult, cwd1, wd_files,
                    nfiles + 1, <<>>)

TwoPassRun(s, oc) ==
    IF second_step(s) THEN TwoPassSecond(s, oc) ELSE TwoPassFirst(s, oc)

\* dynamic dispatch on the class of the instance
RunBody(s, oc) ==
    CASE steps[s].kind = "generic"  -> GenericRun(s, oc)
      [] steps[s].kind = "mkvmerge" -> MKVMergeRun(s, oc)
      [] steps[s].kind = "simple"   -> FFmpegSimpleRun(s, oc)
      [] steps[s].kind = "twopass"  -> TwoPassRun(s, oc)

\* (faulty variant) run() refuses an instance that already holds a result
RunOnce(s, oc) ==
    IF steps[s].has_result
    THEN [Effect("RuntimeError", 0, EmptyResult, cwd_files, wd_files,
                 nfiles, <<>>) EXCEPT !.set = FALSE]
    ELSE RunBody(s, oc)

\* step.run(): no run() looks at _result before it executes
Run(s, oc) == RunBody(s, oc)

\* the `result` property: the value, or ValueError when _result is not set
ResultReadable(s) == steps[s].has_result

\* the heap after run() of s had effect eff; popped: the caller then popped
\* both keys off the result dict (step.py:348,351)
HeapAfter(s, eff, popped) ==
    /\ steps' = [steps EXCEPT
                   ![s].has_result = @ \/ eff.set,
                   ![s].result = IF popped THEN EmptyResult
                                 ELSE IF eff.set THEN eff.res ELSE @]
                \o eff.spawn
    /\ cwd_files' = eff.cwd
    /\ wd_files' = eff.wd
    /\ nfiles' = eff.nfiles

LogEntry(s, sprint, eff) ==
    [step |-> s, sprint |-> sprint, ok |-> (eff.err = "none"),
     cmds |-> eff.cmds, set |-> eff.set,
     res |-> IF eff.set THEN eff.res ELSE EmptyResult,
     rerun |-> steps[s].has_result]

----------------------------------------------------------------------------
(* Construction: ProcessingStep.__init__ and the verify() of each kind *)

\* a parameter of the dict: missing, None, or a value of some type
ParamTags == {"missing", "none", "value"}
OutputTags == {"missing", "none", "str", "path"}
Suffixes == {".mkv", ".MKV", ".mp4"}
ModeValues == {"missing", "none", "MERGE", "JOIN", "str"}
MKVMergeMode == {"MERGE", "JOIN"}

OutputParam(tag, sfx) == [tag |-> tag, suffix |-> sfx]

MKVParams ==
    [inputs : ParamTags,
     output : {OutputParam(t, "") : t \in OutputTags \ {"path"}}
              \cup {OutputParam("path", x) : x \in Suffixes},
     mode : ModeValues]

\* input, input_opt, encoder, and whether get_ffmpeg_info finds a version
FFParams ==
    [input : ParamTags, input_opt : ParamTags, encoder : ParamTags,
     version : BOOLEAN]

NoMKVParams == [inputs |-> "missing", output |-> OutputParam("missing", ""),
                mode |-> "missing"]
NoFFParams == [input |-> "missing", input_opt |-> "missing",
               encoder |-> "missing", version |-> FALSE]

\* str.lower() on the suffixes in use
lower(sfx) == IF sfx = ".MKV" THEN ".mkv" ELSE sfx

\* the file an output parameter of type Path names
PathOf(o) == File(o.suffix, 0)

\* parameters.get(req, None) is not None, for every req
verify_required(tags) == \A t \in tags : t \notin {"missing", "none"}

\* (faulty variant) the output path is not tested for existence
MKVMergeVerifyNoExists(p) ==
    /\ verify_required({p.inputs, p.output.tag, p.mode})
    /\ p.output.tag = "path"
    /\ lower(p.output.suffix) = ".mkv"
    /\ p.mode \in MKVMergeMode

MKVMergeVerify(p) ==
    /\ verify_required({p.inputs, p.output.tag, p.mode})
    /\ p.output.tag = "path"
    /\ lower(p.output.suffix) = ".mkv"
    /\ PathOf(p.output) \notin cwd_files
    /\ p.mode \in MKVMergeMode

FFmpegVerify(p) ==
    /\ verify_required({p.input, p.input_opt, p.encoder})
    /\ p.version

\* how __init__ ends: AttributeError on wd = None (self.wd._cwd), ValueError
\* when verify() raises, "none" when the instance is constructed
InitOutcome(kind, mp, fp, wd) ==
    IF wd = "none" THEN "AttributeError"
    ELSE IF (IF kind = "mkvmerge" THEN MKVMergeVerify(mp) ELSE FFmpegVerify(fp))
         THEN "none"
         ELSE "ValueError"

Call(op, kind, mp, fp, wd, step, outcome, cmds) ==
    [op |-> op, kind |-> kind, mkv |-> mp, ff |-> fp, wd |-> wd,
     step |-> step, outcome |-> outcome, cmds |-> cmds]

NoCall == Call("none", "none", NoMKVParams, NoFFParams, "none", 0, "none", 0)

----------------------------------------------------------------------------
(* ProcessingStep_execute(base_step), step.py:329-358 *)

ConcreteKinds == Kinds \ {"generic"}

StaleStats == UNION {ffmpeg2pass_file_names(i) : i \in 0..MaxStale}

\* a step graph: every step emits only steps constructed after it
StepGraphs ==
    {g \in [1..NSteps -> SUBSET (1..NSteps)] :
        \A s \in 1..NSteps : \A c \in g[s] : c > s}

SchedInit ==
    /\ pc = "while"
    /\ current_sprint = {1}
    /\ next_sprint = {}
    /\ todo = {}
    /\ output_files = {}
    /\ sprint_id = 0
    /\ returned = [kind |-> "unset", val |-> {}]
    /\ raised = "none"
    /\ sprint_members = <<>>
    /\ log = <<>>
    /\ last = NoCall

\* base_step is an abstract step at the root of a step graph
InitGeneric ==
    /\ steps = [s \in 1..NSteps |-> StepRec("generic", {}, NoPath)]
    /\ children \in StepGraphs
    /\ emits \in [1..NSteps -> BOOLEAN]
    /\ cwd_files = {}
    /\ wd_files = {}
    /\ nfiles = 0

\* base_step is a freshly constructed concrete step
InitConcrete ==
    /\ \E k \in ConcreteKinds :
         steps = << StepRec(k, {}, IF k = "mkvmerge" THEN File(".mkv", 0)
                                                    ELSE NoPath) >>
    /\ children = <<>>
    /\ emits = <<>>
    /\ cwd_files \in SUBSET StaleStats
    /\ wd_files = {}
    /\ nfiles = 0

Init == SchedInit /\ (InitGeneric \/ InitConcrete)

\* no step graph needs more sprints than it has steps
SprintCap == NSteps + 1

\* (faulty variant) the outputs of the previous sprint are kept
DiscardNothing == output_files

\* step.py:337-342: what is left of the previous sprint's outputs
Discard == {}

\* (faulty variant) a step is run as soon as it is emitted
RunnableEager == todo \cup next_sprint

\* the steps the for loop (step.py:344) may visit next
Runnable == todo

\* (faulty variant) the steps of the finished sprint stay in the next one
AdvanceKeep == current_sprint \cup next_sprint

\* step.py:355: the next value of current_sprint
Advance == next_sprint

\* the value of the call: the function ends at its last statement, a
\* LOG.info, and has no return statement
ReturnValue == [kind |-> "None", val |-> {}]

\* while len(current_sprint) > 0: enter the loop body
StartSprint ==
    /\ pc = "while"
    /\ current_sprint /= {}
    /\ sprint_id < SprintCap
    /\ output_files' = Discard
    /\ next_sprint' = {}
    /\ todo' = current_sprint
    /\ sprint_members' = Append(sprint_members, current_sprint)
    /\ pc' = "for"
    /\ UNCHANGED <<heap, graph, current_sprint, sprint_id, returned, raised,
                   log, last>>

\* (faulty variant) the exception is caught and the for loop goes on
ExecSwallow(s, err) ==
    /\ todo' = todo \ {s}
    /\ UNCHANGED <<pc, raised, next_sprint, output_files>>

\* run() raised: the exception leaves the for loop, the while loop and the call
ExecRaise(s, err) ==
    /\ pc' = "failed"
    /\ raised' = err
    /\ UNCHANGED <<todo, next_sprint, output_files>>

\* run() returned: step.py:346-353
ExecCollect(s, res) ==
    /\ next_sprint' = next_sprint \cup res.next_sprint_steps
    /\ output_files' = output_files \cup res.output_media_file
    /\ todo' = todo \ {s}
    /\ UNCHANGED <<pc, raised>>

\* one iteration of `for step in current_sprint`
RunStep ==
    /\ pc = "for"
    /\ \E s \in Runnable : \E oc \in Outcomes :
         LET eff == Run(s, oc)
         IN  /\ HeapAfter(s, eff, eff.set)
             /\ log' = Append(log, LogEntry(s, sprint_id, eff))
             /\ IF eff.err = "none"
                THEN ExecCollect(s, eff.res)
                ELSE ExecRaise(s, eff.err)
    /\ UNCHANGED <<graph, current_sprint, sprint_id, returned,
                   sprint_members, last>>

\* the for loop is exhausted: step.py:355-356
EndSprint ==
    /\ pc = "for"
    /\ todo = {}
    /\ current_sprint' = Advance
    /\ sprint_id' = sprint_id + 1
    /\ pc' = "while"
    /\ UNCHANGED <<heap, graph, next_sprint, todo, output_files, returned,
                   raised, log, sprint_members, last>>

\* the while condition fails: step.py:358 and the end of the function
Finish ==
    /\ pc = "while"
    /\ current_sprint = {}
    /\ returned' = ReturnValue
    /\ pc' = "done"
    /\ UNCHANGED <<heap, graph, current_sprint, next_sprint, todo,
                   output_files, sprint_id, raised, log, sprint_members, last>>

Next == StartSprint \/ RunStep \/ EndSprint \/ Finish

Spec == Init /\ [][Next]_vars

\* the interpreter keeps executing the call
FairSpec == Spec /\ WF_vars(Next)

----------------------------------------------------------------------------
(* A client using the step API directly *)

StepInit ==
    /\ steps = <<>>
    /\ children = <<>>
    /\ emits = <<>>
    /\ cwd_files \in SUBSET ({File(".mkv", 0)} \cup ffmpeg2pass_file_names(0))
    /\ wd_files = {}
    /\ nfiles = 0
    /\ pc = "client"
    /\ current_sprint = {}
    /\ next_sprint = {}
    /\ todo = {}
    /\ output_files = {}
    /\ sprint_id = 0
    /\ returned = [kind |-> "unset", val |-> {}]
    /\ raised = "none"
    /\ sprint_members = <<>>
    /\ log = <<>>
    /\ last = NoCall

\* Kind(parameters=..., wd=...): ProcessingStep.__init__
Construct(kind, mp, fp, wd) ==
    LET outcome == InitOutcome(kind, mp, fp, wd)
    IN  /\ steps' = IF outcome = "none"
                    THEN Append(steps,
                           StepRec(kind, {},
                                   IF kind = "mkvmerge"
                                   THEN PathOf(mp.output) ELSE NoPath))
                    ELSE steps
        /\ last' = Call("construct", kind, mp, fp, wd,
                        IF outcome = "none" THEN Len(steps) + 1 ELSE 0,
                        outcome, 0)

ValidMKVParams == [inputs |-> "value", output |-> OutputParam("path", ".mkv"),
                   mode |-> "MERGE"]
ValidFFParams == [input |-> "value", input_opt |-> "value",
                  encoder |-> "value", version |-> TRUE]

\* the client constructs a step as the tests of step.py do
ConstructStep ==
    /\ Len(steps) < MaxInst
    /\ \E kind \in ConcreteKinds :
         Construct(kind, ValidMKVParams, ValidFFParams, "wd")
    /\ UNCHANGED <<cwd_files, wd_files, nfiles, graph, sched, log>>

\* step.run()
RunDirect ==
    /\ Len(log) < MaxRuns
    /\ \E s \in Insts : \E oc \in Outcomes :
         LET eff == Run(s, oc)
         IN  /\ HeapAfter(s, eff, FALSE)
             /\ log' = Append(log, LogEntry(s, 0, eff))
             /\ last' = Call("run", steps[s].kind, NoMKVParams, NoFFParams,
                             "wd", s, eff.err, eff.cmds)
    /\ UNCHANGED <<graph, sched>>

\* step.result
ReadResult ==
    /\ \E s \in Insts :
         last' = Call("result", steps[s].kind, NoMKVParams, NoFFParams, "wd",
                      s, IF ResultReadable(s) THEN "none" ELSE "ValueError", 0)
    /\ UNCHANGED <<heap, graph, sched, log>>

StepNext == ConstructStep \/ RunDirect \/ ReadResult

StepSpec == StepInit /\ [][StepNext]_vars

----------------------------------------------------------------------------
(* A client constructing steps from arbitrary parameter dicts *)

\* FFmpeg step parameters with at most one defect
FFParamChoices ==
    {fp \in FFParams :
        Cardinality({k \in {"input", "input_opt", "encoder"} : fp[k] /= "value"}
                    \cup (IF fp.version THEN {} ELSE {"version"})) <= 1}

CtorInit ==
    /\ steps = <<>>
    /\ children = <<>>
    /\ emits = <<>>
    /\ cwd_files \in SUBSET {File(".mkv", 0), File(".MKV", 0)}
    /\ wd_files = {}
    /\ nfiles = 0
    /\ pc = "client"
    /\ current_sprint = {}
    /\ next_sprint = {}
    /\ todo = {}
    /\ output_files = {}
    /\ sprint_id = 0
    /\ returned = [kind |-> "unset", val |-> {}]
    /\ raised = "none"
    /\ sprint_members = <<>>
    /\ log = <<>>
    /\ last = NoCall

ConstructAny ==
    /\ Len(steps) < MaxCtor
    /\ \E kind \in ConcreteKinds : \E wd \in {"wd", "none"} :
       \E mp \in (IF kind = "mkvmerge" THEN MKVParams ELSE {NoMKVParams}) :
       \E fp \in (IF kind = "mkvmerge" THEN {NoFFParams} ELSE FFParamChoices) :
         Construct(kind, mp, fp, wd)
    /\ UNCHANGED <<cwd_files, wd_files, nfiles, graph, sched, log>>

CtorNext == ConstructAny

CtorSpec == CtorInit /\ [][CtorNext]_vars

----------------------------------------------------------------------------
(* Properties *)

LogIdx == 1..Len(log)

\* the output media files that the successful runs of sprint n produced
OutputsOfSprint(n) ==
    UNION {log[i].res.output_media_file :
             i \in {j \in LogIdx : log[j].sprint = n /\ log[j].ok}}

AllRunsOk == \A i \in LogIdx : log[i].ok

\* step s has completed a run() successfully
RanOk(s) == \E i \in LogIdx : log[i].step = s /\ log[i].ok

\* C1: when ProcessingStep_execute finishes without error, output_files holds
\* exactly the output media files produced by the steps run in the last
\* executed sprint, and none produced in an earlier sprint.
C1_LastSprintOutputs ==
    pc = "done" =>
        /\ output_files = OutputsOfSprint(sprint_id - 1)
        /\ \A n \in 0..(sprint_id - 2) :
             OutputsOfSprint(n) \cap output_files = {}

C1_Witness ==
    /\ pc = "done"
    /\ sprint_id >= 2
    /\ OutputsOfSprint(0) /= {}
    /\ output_files /= {}

\* C2: the execute call returns to its caller the set of output media files
\* accumulated in the final sprint.
C2_ReturnsOutputs ==
    pc = "done" => returned.kind = "set" /\ returned.val = output_files

\* C3: on a finite step graph in which every step emits only later steps,
\* the execute call eventually halts: it reaches an empty current sprint and
\* ends, or a run() raised and the exception ended it.
C3_Halts ==
    <>((pc = "done" /\ current_sprint = {}) \/ pc = "failed")

C3_Witness ==
    /\ pc = "done"
    /\ current_sprint = {}
    /\ steps[1].kind = "generic"
    /\ sprint_id >= 3

\* C4: every run() of sprint N+1 comes after the runs of all steps of sprint
\* N have completed, a step runs only in a sprint it is a member of, and a
\* step of a later sprint runs only after a step that emitted it completed.
C4_SprintOrder ==
    \A i \in LogIdx :
        /\ log[i].step \in sprint_members[log[i].sprint + 1]
        /\ log[i].sprint > 0 =>
             /\ \A s \in sprint_members[log[i].sprint] :
                  \E j \in 1..(i - 1) :
                      /\ log[j].step = s
                      /\ log[j].sprint = log[i].sprint - 1
                      /\ log[j].ok
             /\ \E j \in 1..(i - 1) :
                  /\ log[i].step \in log[j].res.next_sprint_steps
                  /\ log[j].sprint = log[i].sprint - 1

C4_Witness ==
    \E i \in LogIdx :
        /\ log[i].sprint = 1
        /\ Cardinality(sprint_members[1]) = 1
        /\ Cardinality(sprint_members[2]) >= 2

\* C5: once a run() has failed the sprint loop has stopped: the failed run is
\* the last run of the call, the call has ended with that exception and has
\* returned nothing.
C5_FailureAborts ==
    /\ \A i \in LogIdx :
         ~ log[i].ok =>
            /\ i = Len(log)
            /\ pc = "failed"
            /\ raised /= "none"
            /\ returned.kind = "unset"
    /\ pc = "failed" => Len(log) > 0 /\ ~ log[Len(log)].ok

C5_Witness ==
    /\ pc = "failed"
    /\ Cardinality(todo) >= 2
    /\ Len(log) >= 2

\* C6: the execute call ends as a success if and only if every run succeeded
\* and the final sprint produced at least one output media file.
C6_SuccessIffOutputs ==
    pc \in {"done", "failed"} =>
        ((pc = "done") <=> (AllRunsOk /\ output_files /= {}))

\* C7: for every concrete step, `result` can be read exactly when a run() of
\* that step has completed successfully; reading it before any run(), or
\* after only failed runs, raises.
C7_ResultOnlyAfterSuccess ==
    /\ \A s \in Insts : ResultReadable(s) <=> RanOk(s)
    /\ last.op = "result" =>
         /\ last.outcome \in {"none", "ValueError"}
         /\ (last.outcome = "none") <=> RanOk(last.step)

C7_Witness ==
    /\ last.op = "result"
    /\ last.outcome = "ValueError"
    /\ \E i \in LogIdx : log[i].step = last.step /\ ~ log[i].ok

\* C8 (as stated): a run() on an instance that has completed a run()
\* successfully is rejected: it executes no command and sets no result.
C8_RerunRejected ==
    \A i \in LogIdx :
        log[i].rerun => ~ log[i].ok /\ log[i].cmds = 0 /\ ~ log[i].set

\* the last successful run of step s
LastOk(s) ==
    CHOOSE i \in LogIdx :
        /\ log[i].step = s /\ log[i].ok
        /\ \A j \in LogIdx : log[j].step = s /\ log[j].ok => j <= i

\* C8 (amended): a run() on an instance that has completed a run()
\* successfully is carried out like the first: it executes the external
\* command again and, when it succeeds, assigns the result again, so that
\* the result of a step is that of its latest successful run.
C8_RerunExecutes ==
    /\ \A i \in LogIdx :
         log[i].rerun => log[i].cmds = 1 /\ (log[i].ok => log[i].set)
    /\ \A s \in Insts :
         RanOk(s) => steps[s].result = log[LastOk(s)].res

C8_Witness ==
    \E i \in LogIdx : \E j \in 1..(i - 1) :
        /\ log[i].step = log[j].step
        /\ log[j].ok /\ log[i].ok /\ log[i].rerun
        /\ log[i].res /= log[j].res
        /\ steps[log[i].step].result = log[i].res

\* the conditions under which construction of an MKVMergeProcessingStep is
\* to fail (the suffix .mkv is taken in any letter case)
C9_Invalid(p) ==
    \/ p.inputs \in {"missing", "none"}
    \/ p.output.tag \in {"missing", "none"}
    \/ p.mode \in {"missing", "none"}
    \/ p.output.tag /= "path"
    \/ p.output.suffix \notin {".mkv", ".MKV"}
    \/ File(p.output.suffix, 0) \in cwd_files
    \/ p.mode \notin {"MERGE", "JOIN"}

\* C9: constructing an MKVMergeProcessingStep with a valid working directory
\* fails with the parameter-validation error, and runs no command, exactly
\* when inputs, output or mode is missing or None, output is not a path with
\* suffix .mkv, output exists, or mode is no MKVMergeMode; otherwise the
\* instance is constructed.
C9_ConstructValidates ==
    (last.op = "construct" /\ last.kind = "mkvmerge" /\ last.wd = "wd") =>
        /\ last.outcome \in {"none", "ValueError"}
        /\ (last.outcome = "ValueError") <=> C9_Invalid(last.mkv)
        /\ last.cmds = 0 /\ log = <<>>
        /\ (last.outcome = "none") <=>
               (last.step = Len(steps) /\ last.step > 0)

C9_Witness ==
    /\ last.op = "construct" /\ last.kind = "mkvmerge" /\ last.wd = "wd"
    /\ last.outcome = "ValueError"
    /\ last.mkv.inputs = "value" /\ last.mkv.mode = "JOIN"
    /\ last.mkv.output = OutputParam("path", ".MKV")
    /\ File(".MKV", 0) \in cwd_files

\* C10: a successful run of a two-pass step without ffmpeg2pass yields
\* exactly one next step, of the same kind and with ffmpeg2pass set, and no
\* output media file; a successful run of that child yields an output media
\* file and no next step; so a successful execute on a two-pass base step
\* has run exactly two sprints of one step each.
C10_TwoPassTwoSprints ==
    /\ \A i \in LogIdx :
         (steps[log[i].step].kind = "twopass" /\ log[i].ok) =>
            IF steps[log[i].step].ffmpeg2pass = {}
            THEN /\ log[i].res.output_media_file = {}
                 /\ Cardinality(log[i].res.next_sprint_steps) = 1
                 /\ \A c \in log[i].res.next_sprint_steps :
                      /\ c \in Insts
                      /\ c /= log[i].step
                      /\ steps[c].kind = "twopass"
                      /\ steps[c].ffmpeg2pass /= {}
            ELSE /\ Cardinality(log[i].res.output_media_file) = 1
                 /\ log[i].res.next_sprint_steps = {}
    /\ (pc = "done" /\ steps[1].kind = "twopass") =>
         /\ sprint_id = 2
         /\ Len(sprint_members) = 2
         /\ \A n \in 1..2 : Cardinality(sprint_members[n]) = 1
         /\ Len(log) = 2
         /\ log[1].sprint = 0 /\ log[2].sprint = 1
         /\ log[1].step /= log[2].step

C10_Witness ==
    /\ pc = "done"
    /\ steps[1].kind = "twopass"
    /\ Cardinality(output_files) = 1

----------------------------------------------------------------------------
(* Clients of the pure functions of utils.py, logic.py and recipe.py.      *)
(* Each draws the function's input in its initial state and applies the    *)
(* function once; `last` holds the input and, once applied, the outcome.   *)

\* no step, no execute call: the scheduler's variables stay idle
Idle ==
    /\ steps = <<>>
    /\ children = <<>>
    /\ emits = <<>>
    /\ wd_files = {}
    /\ nfiles = 0
    /\ pc = "client"
    /\ current_sprint = {}
    /\ next_sprint = {}
    /\ todo = {}
    /\ output_files = {}
    /\ sprint_id = 0
    /\ returned = [kind |-> "unset", val |-> {}]
    /\ raised = "none"
    /\ sprint_members = <<>>
    /\ log = <<>>

idle == <<steps, children, emits, wd_files, nfiles, pc, current_sprint,
          next_sprint, todo, output_files, sprint_id, returned, raised,
          sprint_members, log>>

\* a call yet to be made on arg, and a call made: out holds the value
\* returned, err the exception raised ("none" if the call returned)
Pending(arg) == [op |-> "none", arg |-> arg, out |-> {}, err |-> "none"]
Applied(op, arg, out, err) == [op |-> op, arg |-> arg, out |-> out, err |-> err]

----------------------------------------------------------------------------
(* get_valid_ffmpeg2pass_name(base) in a directory holding stats files *)

\* stats-file names <base>_<i>, i in 0..MaxName, may exist
MaxName == 2

NameInit ==
    /\ Idle
    /\ cwd_files \in SUBSET UNION {ffmpeg2pass_file_names(i) : i \in 0..MaxName}
    /\ last = Pending({})

Allocate ==
    /\ last.op = "none"
    /\ last' = Applied("get_valid_ffmpeg2pass_name", {},
                       {get_valid_ffmpeg2pass_name(cwd_files)}, "none")
    /\ UNCHANGED <<cwd_files, idle>>

NameSpec == NameInit /\ [][Allocate]_vars

\* C11: the name get_valid_ffmpeg2pass_name returns is free: neither
\* <name>-0.log nor <name>-0.log.mbtree exists in the current directory
C11_NameIsFree ==
    last.op = "get_valid_ffmpeg2pass_name" =>
        \A name \in last.out : ffmpeg2pass_file_names(name) \cap cwd_files = {}

----------------------------------------------------------------------------
(* logic.py: documents.  A value of a dict tree is a scalar (str, int,     *)
(* float, bool), None, a dict or a list:                                   *)
(*   ty     the Python type ("raise": no value, an exception was raised)   *)
(*   atom   a scalar's value, written as in the document                   *)
(*   kids   a dict's items, key -> value                                   *)
(*   items  a list's items, in order                                       *)

NoKids == [k \in {} |-> {}]

Scalar(ty, atom) == [ty |-> ty, atom |-> atom, kids |-> NoKids, items |-> <<>>]
Dict(kids) == [ty |-> "dict", atom |-> "", kids |-> kids, items |-> <<>>]
List(items) == [ty |-> "list", atom |-> "", kids |-> NoKids, items |-> items]
None == Scalar("NoneType", "None")
Raised == Scalar("raise", "")

EXPECTED_TERMINAL_TYPES == {"str", "int", "float", "bool"}

\* a hashable member of the set a grammar rule returns
Atom(ty, atom) == [ty |-> ty, atom |-> atom]

is_a_collection(v) == v.ty = "list"

----------------------------------------------------------------------------
(* logic.py: Grammar.  A rule is the record of the factory's arguments     *)
(* (see RECIPE_STRUCTURE); Wrapped(rule, values) is the call of the        *)
(* function the factory returns.  _validate hands a rule a scalar, a list, *)
(* or the set of a dict's keys: values.ty = "dict" stands for              *)
(* set(values.keys()).                                                     *)
(*   op        the factory                                                 *)
(*   what      any_of, n_of, at_least_n_of: what;                          *)
(*             nonterminal_collection: allowed_items                       *)
(*   var_type  "None" when the factory got no type                         *)
(*   allowed   terminal_variable: allowed_values, when restricted          *)

\* what a rule returns: a set (elems), the value itself (Grammar.any), or
\* an exception; warned: the rule logged a warning
Out(kind, elems, warned) == [kind |-> kind, elems |-> elems, warned |-> warned]

\* (faulty variant) n_of counting the keys given, not the allowed ones
n_of_set_len_values(rule, keys) ==
    IF Cardinality(keys) = rule.n
    THEN Out("set", {Atom("str", k) : k \in keys \cap rule.what}, FALSE)
    ELSE Out("set", {}, TRUE)

\* n_of(n, what) given a set: the allowed keys, when there are exactly n
n_of_set(rule, keys) ==
    LET common == keys \cap rule.what
    IN  IF Cardinality(common) = rule.n
        THEN Out("set", {Atom("str", k) : k \in common}, FALSE)
        ELSE Out("set", {}, TRUE)

Wrapped(rule, values) ==
    LET keys == DOMAIN values.kids
        common == keys \cap rule.what
        is_set == values.ty = "dict"
        KeyAtoms(ks) == {Atom("str", k) : k \in ks}
        isinstance(v, var_type) == var_type = "None" \/ v.ty = var_type
        \* the members of a list a set can hold (a dict is unhashable)
        ScalarItems(v) ==
            {Atom(v.items[i].ty, v.items[i].atom) :
                i \in {j \in DOMAIN v.items :
                          v.items[j].ty \in EXPECTED_TERMINAL_TYPES}}
    IN  CASE rule.op = "any" ->
               Out("same",
                   IF is_set THEN KeyAtoms(keys)
                   ELSE IF values.ty = "list" THEN ScalarItems(values)
                   ELSE {}, FALSE)
          [] rule.op = "any_of" ->
               IF is_set THEN Out("set", KeyAtoms(common), FALSE)
               ELSE Out("set", {}, TRUE)
          [] rule.op = "at_least_n_of" ->
               IF is_set
               THEN IF Cardinality(common) >= rule.n
                    THEN Out("set", KeyAtoms(common), FALSE)
                    ELSE Out("set", {}, TRUE)
               ELSE Out("set", {}, TRUE)
          [] rule.op = "n_of" ->
               IF is_set THEN n_of_set(rule, keys) ELSE Out("set", {}, TRUE)
          [] rule.op = "terminal_variable" ->
               IF is_set
               \* {values} with values a set: unhashable
               THEN IF rule.var_type = "None" THEN Out("raise", {}, FALSE)
                    ELSE Out("set", {}, FALSE)
               ELSE IF /\ values.ty \in EXPECTED_TERMINAL_TYPES \cup {"NoneType"}
                       /\ isinstance(values, rule.var_type)
                       /\ (rule.restricted => values.ty = "str"
                                              /\ values.atom \in rule.allowed)
                    THEN Out("set", {Atom(values.ty, values.atom)}, FALSE)
                    ELSE Out("set", {}, FALSE)
          [] rule.op = "terminal_collection" ->
               IF /\ is_a_collection(values)
                  /\ \A i \in DOMAIN values.items :
                        /\ values.items[i].ty \in EXPECTED_TERMINAL_TYPES
                        /\ isinstance(values.items[i], rule.var_type)
               THEN Out("set", ScalarItems(values), FALSE)
               ELSE Out("set", {}, FALSE)
          [] rule.op = "nonterminal_collection" ->
               IF ~is_a_collection(values) THEN Out("set", {}, FALSE)
               \* next(iter(v)) of a number, of "" or of {} raises
               ELSE IF \E i \in DOMAIN values.items :
                          LET v == values.items[i]
                          IN  \/ v.ty \in {"int", "float", "bool", "NoneType"}
                              \/ v.ty = "str" /\ v.atom = ""
                              \/ v.ty = "dict" /\ DOMAIN v.kids = {}
                    THEN Out("raise", {}, FALSE)
               ELSE IF \A i \in DOMAIN values.items : values.items[i].ty = "dict"
                    THEN Out("set",
                             KeyAtoms({k \in rule.what :
                                 \E i \in DOMAIN values.items :
                                     DOMAIN values.items[i].kids = {k}}),
                             FALSE)
               ELSE Out("set", {}, FALSE)

\* Grammar.combine: the union of the rules' outputs; set.union(x) of what
\* Grammar.any returns takes x's members: the keys, a list's items (a dict
\* item is unhashable), a string's characters; a number is not iterable
combine(grammar_rules, values) ==
    LET Members(o) ==
            IF o.kind = "set" \/ values.ty = "dict" THEN o.elems
            ELSE IF values.ty = "str"
                 THEN IF values.atom = "" THEN {}
                      ELSE {Atom("chars", values.atom)}
                 ELSE o.elems
        Fails(o) ==
            \/ o.kind = "raise"
            \/ /\ o.kind = "same"
               /\ \/ values.ty \in {"int", "float", "bool", "NoneType"}
                  \/ /\ values.ty = "list"
                     /\ \E i \in DOMAIN values.items : values.items[i].ty = "dict"
        \* res = res.union(rule(values)) over what the rules return
        Union(outs) ==
            IF \E o \in outs : Fails(o) THEN Out("raise", {}, FALSE)
            ELSE Out("set", UNION {Members(o) : o \in outs},
                     \E o \in outs : o.warned)
    IN  Union({Wrapped(grammar_rules[i], values) : i \in DOMAIN grammar_rules})

\* the call of an entry of a grammar: of a rule, or of what Grammar.combine
\* returned for several rules
GrammarRule(entry, values) ==
    IF entry.combined THEN combine(entry.rules, values)
    ELSE Wrapped(entry.rules[1], values)

----------------------------------------------------------------------------
(* recipe.py: the recipe schema.  A grammar key is the sequence of its     *)
(* dot-separated segments.  A grammar is a dict: keys holds its keys in    *)
(* insertion order, the order its items are iterated in, and rule the      *)
(* value of each key.                                                      *)

RECIPE_STRUCTURE ==
    LET \* logic.py, Grammar: the factories, as records of their arguments
        Rule(op, n, what, var_type, restricted, allowed) ==
            [op |-> op, n |-> n, what |-> what, var_type |-> var_type,
             restricted |-> restricted, allowed |-> allowed]

        any == Rule("any", 0, {}, "None", FALSE, {})
        any_of(what) == Rule("any_of", 0, what, "None", FALSE, {})
        at_least_n_of(n, what) == Rule("at_least_n_of", n, what, "None", FALSE, {})
        at_least_1_of(what) == at_least_n_of(1, what)
        n_of(n, what) == Rule("n_of", n, what, "None", FALSE, {})
        one_of(what) == n_of(1, what)
        all_of(what) == n_of(Cardinality(what), what)
        terminal_variable(var_type) ==
            Rule("terminal_variable", 0, {}, var_type, FALSE, {})
        terminal_variable_in(var_type, allowed_values) ==
            Rule("terminal_variable", 0, {}, var_type, TRUE, allowed_values)
        terminal_collection(var_type) ==
            Rule("terminal_collection", 0, {}, var_type, FALSE, {})
        nonterminal_collection(allowed_items) ==
            Rule("nonterminal_collection", 0, allowed_items, "None", FALSE, {})
        \* an entry of the grammar: a rule, or the rules Grammar.combine
        \* was given
        One(rule) == [combined |-> FALSE, rules |-> <<rule>>]
        Combine(rules) == [combined |-> TRUE, rules |-> rules]
        \* recipe.py
        ALL_DPS == {"max", "min", "blacklist", "whitelist"}
        ALL_FILE_DP == {"extension", "size", "duration", "nb-streams", "bitrate",
                        "has-chapters"}
        ALL_STREAMTYPE == {"video", "audio", "subtitle", "attachment"}
        ALL_GENERIC_STREAM_DP == {"nb-streams", "codec"}
        ALL_AV_STREAM_DP == ALL_GENERIC_STREAM_DP \cup {"size", "duration", "bitrate"}
        ALL_VIDEO_DP ==
            ALL_AV_STREAM_DP \cup {"width", "height", "quality-index", "bit-depth"}
        STREAM_PROCESSOR_GRAMMAR_DEFINITION ==
            <<all_of({"processor"}), all_of({"parameters"})>>
        RECIPE_CASE_STRUCTURE == nonterminal_collection({"default", "if"})
        ARGUMENT_TYPE_ALLOWED_VALUES == {"str", "int", "float", "bool"}

        DpsListRule == Combine(<<terminal_collection("str"), terminal_variable("str")>>)
        keys ==
           <<<<"/">>, <<"recode-engine">>, <<"recipe">>, <<"input">>, <<"streams">>,
            <<"video">>, <<"audio">>, <<"subtitle">>, <<"attachment">>,
            <<"extension">>, <<"size">>, <<"duration">>, <<"nb-streams">>,
            <<"height">>, <<"width">>, <<"bitrate">>, <<"codec">>,
            <<"has-chapters">>, <<"quality-index">>, <<"arguments">>,
            <<"arguments", "*">>, <<"arguments", "*", "type">>,
            <<"arguments", "*", "values">>, <<"arguments", "*", "required">>,
            <<"arguments", "*", "default">>, <<"default">>,
            <<"stream-processor">>, <<"stream-processor", "*">>, <<"case">>,
            <<"if">>, <<"then">>, <<"post-processing">>, <<"output">>,
            <<"directory">>, <<"suffix">>, <<"max">>, <<"min">>, <<"blacklist">>,
            <<"whitelist">>, <<"argument">>, <<"name">>, <<"value">>,
            <<"processor">>, <<"parameters">>, <<"parameters", "*">>>>
        rule == [ key \in {keys[i] : i \in DOMAIN keys} |->
          CASE key = <<"/">> -> One(all_of({"recode-engine", "recipe"}))
            [] key = <<"recode-engine">> -> One(terminal_variable("None"))
            [] key = <<"recipe">> ->
                 Combine(<<all_of({"input", "stream-processor", "post-processing",
                                   "output"}),
                           any_of({"arguments"})>>)
            [] key = <<"input">> -> One(any_of(ALL_FILE_DP \cup {"streams"}))
            [] key = <<"streams">> -> One(at_least_1_of(ALL_STREAMTYPE))
            [] key = <<"video">> -> One(at_least_1_of(ALL_VIDEO_DP))
            [] key = <<"audio">> -> One(at_least_1_of(ALL_AV_STREAM_DP))
            [] key \in {<<"subtitle">>, <<"attachment">>} ->
                 One(at_least_1_of(ALL_GENERIC_STREAM_DP))
            [] key \in {<<"extension">>, <<"size">>, <<"duration">>,
                        <<"nb-streams">>, <<"height">>, <<"width">>, <<"bitrate">>,
                        <<"codec">>, <<"quality-index">>} ->
                 One(at_least_1_of(ALL_DPS))
            [] key = <<"has-chapters">> -> One(terminal_variable("bool"))
            [] key = <<"arguments">> -> One(any)
            [] key = <<"arguments", "*">> ->
                 Combine(<<all_of({"type", "required", "default"}), any_of(ALL_DPS)>>)
            [] key = <<"arguments", "*", "type">> ->
                 One(terminal_variable_in("str", ARGUMENT_TYPE_ALLOWED_VALUES))
            [] key = <<"arguments", "*", "values">> -> One(terminal_collection("str"))
            [] key = <<"arguments", "*", "required">> -> One(terminal_variable("bool"))
            [] key = <<"arguments", "*", "default">> -> One(terminal_variable("None"))
            [] key = <<"default">> -> Combine(STREAM_PROCESSOR_GRAMMAR_DEFINITION)
            [] key = <<"stream-processor">> -> One(at_least_1_of(ALL_STREAMTYPE))
            [] key = <<"stream-processor", "*">> ->
                 Combine(STREAM_PROCESSOR_GRAMMAR_DEFINITION \o <<all_of({"case"})>>)
            [] key = <<"case">> -> One(RECIPE_CASE_STRUCTURE)
            [] key = <<"if">> -> Combine(<<all_of({"then"}), any>>)
            [] key = <<"then">> -> Combine(STREAM_PROCESSOR_GRAMMAR_DEFINITION)
            [] key = <<"post-processing">> -> One(nonterminal_collection({"case"}))
            [] key = <<"output">> -> One(all_of({"directory", "suffix"}))
            [] key \in {<<"directory">>, <<"suffix">>} -> One(terminal_variable("str"))
            [] key \in {<<"max">>, <<"min">>} -> One(terminal_variable("None"))
            [] key \in {<<"blacklist">>, <<"whitelist">>} -> DpsListRule
            [] key = <<"argument">> -> One(any_of({"name", "value"}))
            [] key = <<"name">> -> One(terminal_variable("str"))
            [] key = <<"value">> -> One(terminal_variable("None"))
            [] key = <<"processor">> -> One(terminal_variable("str"))
            [] key = <<"parameters">> -> One(any)
            [] key = <<"parameters", "*">> -> One(terminal_variable("None")) ]
    IN  [keys |-> keys, rule |-> rule]

----------------------------------------------------------------------------
(* logic.py: DataStructureValidator.  A path is the sequence of its        *)
(* dot-separated segments: "/.recipe.input" is <<"/", "recipe", "input">>. *)

NoKey == <<>>

\* the key of the rule selected for path, NoKey when there is none
load_grammar_rule(grammar, path) ==
    LET \* len(s) of the one-segment grammar keys
        StrLen(s) ==
            CASE s \in {"/"} -> 1
              [] s \in {"if"} -> 2
              [] s \in {"max", "min"} -> 3
              [] s \in {"case", "name", "size", "then"} -> 4
              [] s \in {"audio", "codec", "input", "value", "video", "width"} -> 5
              [] s \in {"height", "output", "recipe", "suffix"} -> 6
              [] s \in {"bitrate", "default", "streams"} -> 7
              [] s \in {"argument", "duration", "subtitle"} -> 8
              [] s \in {"arguments", "blacklist", "directory", "extension",
                        "processor", "whitelist"} -> 9
              [] s \in {"attachment", "nb-streams", "parameters"} -> 10
              [] s \in {"has-chapters"} -> 12
              [] s \in {"recode-engine", "quality-index"} -> 13
              [] s \in {"post-processing"} -> 15
              [] s \in {"stream-processor"} -> 16
              [] OTHER -> 0
        \* the grammar keys that are a proper end of another name of the
        \* schema
        ProperSuffix ==
            {<<"nb-streams", "streams">>, <<"stream-processor", "processor">>}
        EndsWith(segment, key) ==
            segment = key \/ <<segment, key>> \in ProperSuffix
        \* make_grammar_key_pattern_map: ^.*\.?<key>$ with "." literal and
        \* "*" any run of characters but "."; the pattern matches a path
        \* that ends in key
        PatternMatch(key) ==
            /\ Len(key) <= Len(path)
            /\ \A i \in DOMAIN key :
                 \/ key[i] = "*"
                 \/ IF i = 1
                    THEN EndsWith(path[Len(path) - Len(key) + i], key[i])
                    ELSE path[Len(path) - Len(key) + i] = key[i]
        \* twice the match power: "*" counts 0.5, any other segment 1
        MatchPower2(key) ==
            LET RECURSIVE Sum(_)
                Sum(i) == IF i = 0 THEN 0
                          ELSE Sum(i - 1) + (IF key[i] = "*" THEN 1 ELSE 2)
            IN  Sum(Len(key))
        \* len(key)
        KeyLen(key) ==
            LET RECURSIVE Sum(_)
                Sum(i) == IF i = 0 THEN 0
                          ELSE Sum(i - 1)
                               + (IF key[i] = "*" THEN 1 ELSE StrLen(key[i]))
                               + (IF i > 1 THEN 1 ELSE 0)
            IN  Sum(Len(key))
        \* the candidates, in the order of the dict, have the highest
        \* match power; sorted(candidates, key=len, reverse=True)[0] is
        \* the first of the longest candidates: the sort is stable
        Tie(candidates, max_match_power) ==
            IF Len(candidates) = 1 THEN candidates[1]
            ELSE IF max_match_power = 2
                 THEN candidates[
                        CHOOSE i \in DOMAIN candidates :
                          /\ \A j \in DOMAIN candidates :
                                KeyLen(candidates[j]) <= KeyLen(candidates[i])
                          /\ \A j \in 1..(i - 1) :
                                KeyLen(candidates[j]) < KeyLen(candidates[i])]
            ELSE NoKey
        HasPower(key, max_match_power) == MatchPower2(key) = max_match_power
        Highest(compatible_keys, max_match_power) ==
            LET Max(key) == HasPower(key, max_match_power)
            IN  Tie(SelectSeq(compatible_keys, Max), max_match_power)
        Select(compatible_keys) ==
            IF compatible_keys = <<>> THEN NoKey
            ELSE IF Len(compatible_keys) = 1 THEN compatible_keys[1]
            ELSE Highest(compatible_keys,
                         CHOOSE p \in {MatchPower2(compatible_keys[i]) :
                                          i \in DOMAIN compatible_keys} :
                             \A i \in DOMAIN compatible_keys :
                                 MatchPower2(compatible_keys[i]) <= p)
    IN  Select(SelectSeq(grammar.keys, PatternMatch))

\* a logged warning; path is the path its text names (<<>>: none)
Warning(msg, path) == [msg |-> msg, path |-> path]

\* what _validate returns: the value (Raised: an exception left the call),
\* the warnings logged and the grammar keys used
Validated(val, warnings, used) == [val |-> val, warnings |-> warnings, used |-> used]

RECURSIVE _validate(_, _, _)
_validate(grammar, data, path) ==
    LET \* bool(x) of a scalar
        Truthy(v) == v.atom \notin {"", "0", "0.0", "False"}
        empty_warning == {Warning("empty collection", path)}
        \* key is the key of the rule loaded for path, out what the rule
        \* returns for data
        Ruled(key, out) ==
            LET rule_warnings == IF out.warned THEN {Warning("rule", <<>>)}
                                 ELSE {}
            IN  IF data.ty \in EXPECTED_TERMINAL_TYPES
                THEN IF out.kind = "raise" THEN Validated(Raised, {}, {key})
                     ELSE Validated(IF (IF out.kind = "same" THEN Truthy(data)
                                        ELSE out.elems /= {})
                                    THEN data ELSE None,
                                    rule_warnings, {key})
                ELSE IF data.ty = "dict"
                THEN IF out.kind = "raise" THEN Validated(Raised, {}, {key})
                     ELSE
                     LET valid == {k \in DOMAIN data.kids : Atom("str", k) \in out.elems}
                         \* <<valid_item, self._validate(data[valid_item], ...)>>
                         subs == {<<k, _validate(grammar, data.kids[k], Append(path, k))>> :
                                     k \in valid}
                         Sub(k) == (CHOOSE r \in subs : r[1] = k)[2]
                     IN  IF \E r \in subs : r[2].val = Raised
                         THEN Validated(Raised, {}, {key})
                         ELSE Validated(
                                Dict([k \in valid |-> Sub(k).val]),
                                rule_warnings
                                  \cup UNION {r[2].warnings : r \in subs}
                                  \cup (IF valid = {} THEN empty_warning ELSE {}),
                                {key} \cup UNION {r[2].used : r \in subs})
                ELSE IF data.ty = "list"
                THEN IF \/ out.kind = "raise"
                        \* assert len(item) == 1
                        \/ \E i \in DOMAIN data.items :
                              /\ data.items[i].ty = "dict"
                              /\ Cardinality(DOMAIN data.items[i].kids) /= 1
                     THEN Validated(Raised, {}, {key})
                     ELSE
                     LET n == Len(data.items)
                         dict_only_key(i) == CHOOSE k \in DOMAIN data.items[i].kids : TRUE
                         IsDict(i) == data.items[i].ty = "dict"
                         kept == {i \in 1..n :
                                    IF IsDict(i)
                                    THEN Atom("str", dict_only_key(i)) \in out.elems
                                    ELSE /\ data.items[i].ty \in EXPECTED_TERMINAL_TYPES
                                         /\ Atom(data.items[i].ty, data.items[i].atom)
                                              \in out.elems}
                         subs == {<<i, _validate(grammar,
                                                 data.items[i].kids[dict_only_key(i)],
                                                 Append(path, dict_only_key(i)))>> :
                                     i \in {j \in kept : IsDict(j)}}
                         Sub(i) == (CHOOSE r \in subs : r[1] = i)[2]
                         item(i) == IF IsDict(i)
                                    THEN Dict([k \in {dict_only_key(i)} |-> Sub(i).val])
                                    ELSE data.items[i]
                         RECURSIVE Res(_)
                         Res(i) == IF i = 0 THEN <<>>
                                   ELSE IF i \in kept THEN Append(Res(i - 1), item(i))
                                   ELSE Res(i - 1)
                     IN  IF \E r \in subs : r[2].val = Raised
                         THEN Validated(Raised, {}, {key})
                         ELSE Validated(
                                List(Res(n)),
                                rule_warnings
                                  \cup UNION {r[2].warnings : r \in subs}
                                  \cup (IF \E i \in 1..n :
                                              data.items[i].ty \notin
                                                EXPECTED_TERMINAL_TYPES \cup {"dict"}
                                        THEN {Warning("unexpected item", <<>>)} ELSE {})
                                  \cup (IF kept = {} THEN empty_warning ELSE {}),
                                {key} \cup UNION {r[2].used : r \in subs})
                ELSE Validated(None, {}, {key})
        Loaded(key) ==
            IF key = NoKey
            THEN Validated(None, {Warning("Failed to match", path)}, {})
            ELSE Ruled(key, GrammarRule(grammar.rule[key], data))
    IN  Loaded(load_grammar_rule(grammar, path))

\* DataStructureValidator.validate of a validator whose grammar_usage is
\* grammar_usage
validate(grammar, grammar_usage, data) ==
    LET DICT_TREE_ROOT == <<"/">>
        \* self.grammar_usage is usage once _validate has returned tmp
        Used(tmp, usage) ==
            Validated(tmp.val,
                      IF tmp.val = Raised THEN {}
                      ELSE tmp.warnings
                             \cup (IF DOMAIN grammar.rule \ usage /= {}
                                   THEN {Warning("Unused grammar keys", <<>>)}
                                   ELSE {}),
                      usage)
        Checked(tmp) == Used(tmp, grammar_usage \cup tmp.used)
    IN  Checked(_validate(grammar, data, DICT_TREE_ROOT))

----------------------------------------------------------------------------
(* Recipe documents handed to Recipe.VALIDATOR.validate: a map with some   *)
(* of the keys recode-engine, recipe and zzz, whose recipe has some of     *)
(* the five sections, each drawn from a few well- and ill-formed values.   *)

Documents ==
    LET
        StrV(s) == Scalar("str", s)
        IntV(s) == Scalar("int", s)
        BoolV(s) == Scalar("bool", s)
        \* a dict with one or two items
        D1(k, v) == Dict([x \in {k} |-> v])
        D2(k1, v1, k2, v2) == Dict([x \in {k1, k2} |-> IF x = k1 THEN v1 ELSE v2])
        \* a dict with the items of d and the item k: v
        With(d, k, v) ==
            Dict([x \in DOMAIN d.kids \cup {k} |-> IF x = k THEN v ELSE d.kids[x]])
        ProcessorDoc == D2("processor", StrV("p"), "parameters",
                           D2("k", IntV("0"), "m", StrV("v")))

        CaseDoc ==
            List(<< D1("default", D1("processor", StrV("p"))),
                    D1("if", D2("then", D1("parameters", Dict(NoKids)),
                                "argument", D2("name", StrV("a"), "value", IntV("0")))),
                    D1("zzz", IntV("1")) >>)

        InputDocs ==
            { With(D2("extension", D1("whitelist", List(<<StrV("mkv")>>)),
                      "has-chapters", BoolV("False")), "zzz", IntV("1")),
              D2("streams",
                 D1("video", D2("codec", D1("whitelist", List(<<StrV("h264"), IntV("1")>>)),
                                "bit-depth", IntV("8"))),
                 "size", StrV("217M")),
              StrV("x") }

        StreamProcessorDocs ==
            { D1("video", With(ProcessorDoc, "case", CaseDoc)),
              D2("audio", D1("processor", IntV("1")), "zzz", IntV("1")),
              D1("zzz", IntV("1")) }

        PostProcessingDocs ==
            { List(<< D1("case", List(<< D1("default",
                                            D2("processor", StrV("p"),
                                               "parameters", StrV(""))) >>)),
                      D1("zzz", IntV("1")) >>),
              List(<< StrV("x"), D1("case", List(<<>>)) >>),
              List(<< IntV("1") >>) }

        OutputDocs ==
            { With(D2("directory", StrV("d"), "suffix", StrV("s")), "zzz", IntV("1")),
              D1("directory", StrV("d")),
              D2("directory", D1("k", IntV("1")), "suffix", IntV("1")) }

        ArgumentsDocs ==
            { D1("x", With(With(With(D2("type", StrV("int"), "required", BoolV("True")),
                                     "default", IntV("0")), "min", IntV("1")),
                           "values", List(<<StrV("a")>>))),
              IntV("0"),
              D1("x", D2("type", StrV("nope"), "default", Dict(NoKids))),
              List(<< StrV("a"), D1("a", IntV("1")) >>) }

        \* recipes with the four sections whose post-processing list holds
        \* a map with several keys or with none before an accepted element
        ListDocs ==
            {With(With(With(D1("post-processing",
                               List(<<item, D1("case", List(<<>>))>>)),
                            "input", D1("has-chapters", BoolV("False"))),
                       "stream-processor", D1("zzz", IntV("1"))),
                  "output", D1("directory", StrV("d")))
               : item \in {D2("case", List(<<>>), "zzz", IntV("1")), Dict(NoKids)}}

        \* the maps with some of the keys of choices, each with one of its values
        RECURSIVE Maps(_, _)
        Maps(keys, choices) ==
            IF keys = {} THEN {Dict(NoKids)}
            ELSE LET k == CHOOSE x \in keys : TRUE
                 IN  LET rest == Maps(keys \ {k}, choices)
                     IN  rest \cup {With(d, k, v) : d \in rest, v \in choices[k]}

        RecipeDocs ==
            Maps({"input", "stream-processor", "post-processing", "output",
                  "arguments", "zzz"},
                 [k \in {"input", "stream-processor", "post-processing", "output",
                         "arguments", "zzz"} |->
                     CASE k = "input" -> InputDocs
                       [] k = "stream-processor" -> StreamProcessorDocs
                       [] k = "post-processing" -> PostProcessingDocs
                       [] k = "output" -> OutputDocs
                       [] k = "arguments" -> ArgumentsDocs
                       [] k = "zzz" -> {IntV("1")}])
            \cup {IntV("1"), List(<<>>)} \cup ListDocs
    IN  Maps({"recode-engine", "recipe", "zzz"},
             [k \in {"recode-engine", "recipe", "zzz"} |->
                 CASE k = "recode-engine" -> {IntV("1"), D1("k", IntV("1"))}
                   [] k = "recipe" -> RecipeDocs
                   [] k = "zzz" -> {IntV("1")}])

\* Recipe.VALIDATOR is one validator for the process: a second validation
\* adds to the grammar_usage of the first
ValidateInit ==
    /\ Idle
    /\ cwd_files = {}
    /\ \E doc \in Documents : last = Pending(doc)

Validate ==
    /\ last.op = "none"
    /\ LET Done(res) ==
               IF res.val = Raised
               THEN Applied("validate", last.arg, {}, "Exception")
               ELSE Applied("validate", last.arg, {res}, "none")
       IN  last' = Done(validate(RECIPE_STRUCTURE, {}, last.arg))
    /\ UNCHANGED <<cwd_files, idle>>

\* validate(validate(D)): arg is the document validated first
Revalidate ==
    /\ last.op = "validate"
    /\ \E first \in last.out :
         LET Done(res) ==
                 IF res.val = Raised
                 THEN Applied("revalidate", first.val, {}, "Exception")
                 ELSE Applied("revalidate", first.val, {res}, "none")
         IN  last' = Done(validate(RECIPE_STRUCTURE, first.used, first.val))
    /\ UNCHANGED <<cwd_files, idle>>

ValidateSpec == ValidateInit /\ [][Validate \/ Revalidate]_vars

\* C12: grammar idempotence: when validate(D) returns,
\* validate(validate(D)) returns the same document
C12_Idempotent ==
    last.op = "revalidate" =>
        /\ last.err = "none"
        /\ \A second \in last.out : second.val = last.arg

C12_Witness ==
    /\ last.op = "revalidate"
    /\ last.err = "none"
    /\ last.arg.ty = "dict"
    /\ "recipe" \in DOMAIN last.arg.kids
    /\ LET recipe == last.arg.kids["recipe"]
       IN  /\ recipe.ty = "dict"
           /\ {"stream-processor", "post-processing", "arguments"}
                 \subseteq DOMAIN recipe.kids
           /\ recipe.kids["stream-processor"].ty = "dict"
           /\ recipe.kids["post-processing"].ty = "list"
           /\ Len(recipe.kids["post-processing"].items) = 1
           /\ recipe.kids["arguments"] = None
    /\ \E second \in last.out : second.val = last.arg

RequiredSections == {"input", "stream-processor", "post-processing", "output"}

\* C13: a validated document that contains a `recipe` map contains a map
\* with all four keys input, stream-processor, post-processing and output
C13_RecipeHasRequired ==
    last.op = "validate" =>
        \A res \in last.out :
            (/\ res.val.ty = "dict"
             /\ "recipe" \in DOMAIN res.val.kids
             /\ res.val.kids["recipe"].ty = "dict")
            => RequiredSections \subseteq DOMAIN res.val.kids["recipe"].kids

\* C14: every top-level key of the document that the validator drops
\* because the root rule does not allow it is absent from the validated
\* document and is named, as /.<key>, by exactly one warning
C14_DroppedKeyWarned ==
    last.op = "validate" =>
        \A res \in last.out :
            \A k \in DOMAIN last.arg.kids \ {"recode-engine", "recipe"} :
                /\ k \notin DOMAIN res.val.kids
                /\ Cardinality({w \in res.warnings : w.path = <<"/", k>>}) = 1

----------------------------------------------------------------------------
(* recipe.py: weak_parse.  A string is the sequence of its characters; a   *)
(* number is n * 10^e with n not a multiple of 10 (0 is 0 * 10^0):         *)
(*   ty  "str", "int", "float", "bool", "NoneType"                         *)

PyStr(s) == [ty |-> "str", s |-> s, n |-> 0, e |-> 0]

RECURSIVE Normal(_, _, _)
Normal(ty, n, e) ==
    IF n = 0 THEN [ty |-> ty, s |-> <<>>, n |-> 0, e |-> 0]
    ELSE IF n % 10 = 0 THEN Normal(ty, n \div 10, e + 1)
    ELSE [ty |-> ty, s |-> <<>>, n |-> n, e |-> e]

PyInt(n) == Normal("int", n, 0)
PyFloat(n, e) == Normal("float", n, e)
PyBool(b) == [ty |-> "bool", s |-> <<>>, n |-> IF b THEN 1 ELSE 0, e |-> 0]
PyNone == [ty |-> "NoneType", s |-> <<>>, n |-> 0, e |-> 0]

\* what a call does: it returns val, or err leaves it
Return(val) == [err |-> "none", val |-> val]
Raise(err) == [err |-> err, val |-> PyNone]

MI_DURATION_QUALIFIERS ==
    [u \in {<<"h">>, <<"m", "i", "n">>, <<"s">>} |->
        CASE u = <<"h">> -> 3600 [] u = <<"m", "i", "n">> -> 60 [] u = <<"s">> -> 1]

\* the exponent of the factor: G is 10^9, M is 10^6, K is 10^3
HUMAN_UNIT_FACTOR ==
    [u \in {"G", "M", "K"} |-> CASE u = "G" -> 9 [] u = "M" -> 6 [] u = "K" -> 3]

\* s.split(" ")
RECURSIVE split(_)
split(s) ==
    IF \A i \in DOMAIN s : s[i] /= " " THEN <<s>>
    ELSE LET i == CHOOSE j \in DOMAIN s :
                      s[j] = " " /\ \A k \in 1..(j - 1) : s[k] /= " "
         IN  <<SubSeq(s, 1, i - 1)>> \o split(SubSeq(s, i + 1, Len(s)))

\* the numeral int() and float() read in s, which they strip first: ok
\* when it is a sign, decimal digits and at most one point; points counts
\* the points, and n * 10^e is its value
Numeral(s) ==
    LET RECURSIVE strip(_)
        strip(t) ==
            IF t = <<>> THEN t
            ELSE IF Head(t) = " " THEN strip(Tail(t))
            ELSE IF t[Len(t)] = " " THEN strip(SubSeq(t, 1, Len(t) - 1))
            ELSE t
        Digits == {"0", "1", "2", "3", "4", "5", "6", "7", "8", "9"}
        DigitVal(c) ==
            CASE c = "0" -> 0 [] c = "1" -> 1 [] c = "2" -> 2 [] c = "3" -> 3
              [] c = "4" -> 4 [] c = "5" -> 5 [] c = "6" -> 6 [] c = "7" -> 7
              [] c = "8" -> 8 [] c = "9" -> 9
        RECURSIVE DigitsVal(_)
        DigitsVal(t) ==
            IF t = <<>> THEN 0
            ELSE 10 * DigitsVal(SubSeq(t, 1, Len(t) - 1)) + DigitVal(t[Len(t)])
        \* the numeral of sign Sign ("" when it has none) and of digits and
        \* points d
        Unsigned(Sign, d) ==
            LET point == {i \in DOMAIN d : d[i] = "."}
                ok == /\ \E i \in DOMAIN d : d[i] \in Digits
                      /\ \A i \in DOMAIN d : d[i] \in Digits \cup {"."}
                      /\ Cardinality(point) <= 1
            IN  [ok |-> ok,
                 points |-> Cardinality(point),
                 n |-> IF ok
                       THEN (IF Sign = "-" THEN -1 ELSE 1)
                              * DigitsVal(SelectSeq(d, LAMBDA c : c /= "."))
                       ELSE 0,
                 e |-> IF ok /\ point /= {}
                       THEN (CHOOSE i \in point : TRUE) - Len(d) ELSE 0]
        Signed(stripped) ==
            IF stripped /= <<>> /\ Head(stripped) \in {"-", "+"}
            THEN Unsigned(Head(stripped), Tail(stripped))
            ELSE Unsigned("", stripped)
    IN  Signed(strip(s))

\* int(s) of a string: decimal digits only
int(s) ==
    LET Of(x) == IF x.ok /\ x.points = 0 THEN Return(PyInt(x.n))
                 ELSE Raise("ValueError")
    IN  Of(Numeral(s))

\* float(s) of a string
float(s) ==
    LET Of(x) == IF x.ok THEN Return(PyFloat(x.n, x.e)) ELSE Raise("ValueError")
    IN  Of(Numeral(s))

duration_MI_to_s(duration) ==
    LET \* the loop from the i-th pair of tokens on
        RECURSIVE DurationPairs(_, _, _)
        DurationPairs(tokens, i, res) ==
            LET \* res += int(tokens[j]) * MI_DURATION_QUALIFIERS[tokens[j + 1]]
                Add(x, unit) ==
                    IF ~(x.ok /\ x.points = 0) THEN Raise("ValueError")
                    ELSE IF unit \notin DOMAIN MI_DURATION_QUALIFIERS
                         THEN Raise("KeyError")
                    ELSE DurationPairs(tokens, i + 1,
                                       res + x.n * MI_DURATION_QUALIFIERS[unit])
            IN  IF i > Len(tokens) \div 2 THEN Return(PyInt(res))
                ELSE Add(Numeral(tokens[2 * i - 1]), tokens[2 * i])
        Pairs(tokens) ==
            IF Len(tokens) % 2 /= 0 THEN Raise("AssertionError")
            ELSE DurationPairs(tokens, 1, 0)
    IN  Pairs(split(duration))

\* (faulty variant) the unit is dropped without applying its factor
weak_parse_unit_dropped(x) ==
    LET AfterDuration(d) ==
            IF d.err \notin {"AssertionError", "ValueError"} THEN d
            ELSE IF x.s = <<>> THEN Raise("IndexError")
            ELSE IF x.s[Len(x.s)] \in {"G", "M", "K", "g", "m", "k"}
                 THEN Return(PyStr(SubSeq(x.s, 1, Len(x.s) - 1)))
            ELSE Return(x)
    IN  IF x.ty /= "str" THEN Return(x)
        ELSE AfterDuration(duration_MI_to_s(x.s))

weak_parse(x) ==
    LET \* str.upper of a character
        upper(c) ==
            CASE c = "g" -> "G" [] c = "m" -> "M" [] c = "k" -> "K"
              [] c = "h" -> "H" [] c = "s" -> "S" [] c = "i" -> "I"
              [] c = "n" -> "N" [] c = "x" -> "X" [] OTHER -> c
        \* int(s[:-1]) * factor, or float(s[:-1]) * factor when int raises
        \* ValueError: i and f are what int and float do
        Scaled(i, f, factor) ==
            IF i.err = "none"
            THEN Return(Normal("int", i.val.n, i.val.e + factor))
            ELSE IF f.err = "none"
            THEN Return(Normal("float", f.val.n, f.val.e + factor))
            ELSE Raise("ValueError")
        WithUnit(unit_factor, prefix) ==
            IF unit_factor \in DOMAIN HUMAN_UNIT_FACTOR
            THEN Scaled(int(prefix), float(prefix), HUMAN_UNIT_FACTOR[unit_factor])
            ELSE Return(x)
        \* d is what duration_MI_to_s(s) does
        AfterDuration(d) ==
            IF d.err \notin {"AssertionError", "ValueError"} THEN d
            \* s[-1] of the empty string
            ELSE IF x.s = <<>> THEN Raise("IndexError")
            ELSE WithUnit(upper(x.s[Len(x.s)]), SubSeq(x.s, 1, Len(x.s) - 1))
    IN  IF x.ty /= "str" THEN Return(x)
        ELSE AfterDuration(duration_MI_to_s(x.s))

----------------------------------------------------------------------------
(* A client of weak_parse: every string of at most MaxLen characters of    *)
(* Alphabet, the strings of the docstrings, and values that are no string  *)

MaxLen == 4

ParseInit ==
    LET Alphabet == {"1", "2", " ", ".", "s", "k", "M"}
        DocStrings ==
            { <<"2", " ", "m", "i", "n", " ", "1", "2", " ", "s">>,
              <<"1", " ", "h", " ", "1", "0", " ", "m", "i", "n">>,
              <<"4", " ", "s">>,
              <<"2", "1", "7", "M">>,
              <<"1", ".", "2", "k">>,
              <<"h", "2", "6", "4">>,
              <<"1", " ", "x">>,
              <<"-", "1", " ", "h">> }
        ParseInputs ==
            {PyStr(s) : s \in UNION {[1..k -> Alphabet] : k \in 0..MaxLen}
                              \cup DocStrings}
            \cup {PyInt(0), PyInt(132), PyFloat(15, -1), PyBool(TRUE), PyNone}
    IN  /\ Idle
        /\ cwd_files = {}
        /\ \E x \in ParseInputs : last = Pending(x)

Parse ==
    /\ last.op = "none"
    /\ LET Done(res) ==
               Applied("weak_parse", last.arg,
                       IF res.err = "none" THEN {res.val} ELSE {}, res.err)
       IN  last' = Done(weak_parse(last.arg))
    /\ UNCHANGED <<cwd_files, idle>>

\* weak_parse(weak_parse(x)): arg is what the first call returned
ParseAgain ==
    /\ last.op = "weak_parse"
    /\ \E first \in last.out :
         LET Done(res) ==
                 Applied("weak_parse again", first,
                         IF res.err = "none" THEN {res.val} ELSE {}, res.err)
         IN  last' = Done(weak_parse(first))
    /\ UNCHANGED <<cwd_files, idle>>

ParseSpec == ParseInit /\ [][Parse \/ ParseAgain]_vars

\* a duration of (<integer> <unit>) pairs, unit one of h, min, s
ValidDuration(s) ==
    LET tokens == split(s)
    IN  /\ Len(tokens) % 2 = 0
        /\ \A i \in 1..(Len(tokens) \div 2) :
              /\ int(tokens[2 * i - 1]).err = "none"
              /\ tokens[2 * i] \in {<<"h">>, <<"m", "i", "n">>, <<"s">>}

\* a numeric prefix followed by one of G, M, K in either case
NumberWithUnit(s) ==
    /\ s /= <<>>
    /\ s[Len(s)] \in {"G", "M", "K", "g", "m", "k"}
    /\ LET prefix == SubSeq(s, 1, Len(s) - 1)
       IN  int(prefix).err = "none" \/ float(prefix).err = "none"

\* C15: weak_parse returns unchanged, and without failing, every string
\* that is neither a valid duration nor a number followed by G, M or K
C15_OtherStringsUnchanged ==
    (/\ last.op = "weak_parse"
     /\ last.arg.ty = "str"
     /\ ~ValidDuration(last.arg.s)
     /\ ~NumberWithUnit(last.arg.s))
    => /\ last.err = "none"
       /\ last.out = {last.arg}

----------------------------------------------------------------------------
(* recipe.py: verify_rule(stream_rule, stream_info).                       *)
(*   a rule {datapoint: spec} is [datapoint, spec]; spec is a scalar or,   *)
(*   when is_dict, the sequence dps of its (specifier, value) items in     *)
(*   insertion order; a specifier's value is a scalar or, when is_list,    *)
(*   a list; an info value is a scalar or, when is_set, a set              *)

Specifier(name, r) == [name |-> name, r |-> r]
RScalar(x) == [is_list |-> FALSE, scalar |-> x, list |-> {}]
RList(xs) == [is_list |-> TRUE, scalar |-> PyNone, list |-> xs]
SpecScalar(x) == [is_dict |-> FALSE, scalar |-> x, dps |-> <<>>]
SpecDict(dps) == [is_dict |-> TRUE, scalar |-> PyNone, dps |-> dps]
StreamRule(datapoint, spec) == [datapoint |-> datapoint, spec |-> spec]
InfoScalar(x) == [is_set |-> FALSE, scalar |-> x, set |-> {}]
InfoSet(xs) == [is_set |-> TRUE, scalar |-> PyNone, set |-> xs]

IsNumber(x) == x.ty \in {"int", "float", "bool"}

\* a < b, defined between numbers (n * 10^e) and between strings (by the
\* code points of their characters)
Less(a, b) ==
    LET RECURSIVE Pow10(_)
        Pow10(k) == IF k = 0 THEN 1 ELSE 10 * Pow10(k - 1)
        m == IF a.e < b.e THEN a.e ELSE b.e
        NumLess == a.n * Pow10(a.e - m) < b.n * Pow10(b.e - m)
        ord(c) ==
            CASE c = "1" -> 49 [] c = "2" -> 50 [] c = "4" -> 52 [] c = "6" -> 54
              [] c = "a" -> 97 [] c = "h" -> 104 [] c = "k" -> 107 [] c = "v" -> 118
        RECURSIVE StrLess(_, _)
        StrLess(s, t) ==
            IF t = <<>> THEN FALSE
            ELSE IF s = <<>> THEN TRUE
            ELSE IF Head(s) /= Head(t) THEN ord(Head(s)) < ord(Head(t))
            ELSE StrLess(Tail(s), Tail(t))
    IN  IF a.ty = "str" THEN StrLess(a.s, b.s) ELSE NumLess

\* a == b: numbers by value, strings by characters
Eq(a, b) ==
    IF IsNumber(a) /\ IsNumber(b) THEN a.n = b.n /\ a.e = b.e
    ELSE a = b

\* v in a list or set
InList(v, xs) == \E x \in xs : Eq(v, x)

\* {weak_parse(x) for x in xs}; err when a call raises
ParseAll(xs) ==
    LET Collect(parsed) ==
            IF \E p \in parsed : p.err /= "none"
            THEN [err |-> (CHOOSE e \in {p.err : p \in parsed} : e /= "none"),
                  vals |-> {}]
            ELSE [err |-> "none", vals |-> {p.val : p \in parsed}]
    IN  Collect({weak_parse(x) : x \in xs})

\* v in r: r a list (a set once parsed), or a string, of which v is then
\* a substring
InR(v, r) ==
    LET Substring(s, t) ==
            \E i \in 1..(Len(t) + 1) :
                i + Len(s) - 1 <= Len(t) /\ SubSeq(t, i, i + Len(s) - 1) = s
    IN  IF r.is_list THEN InList(v, r.list) ELSE Substring(v.s, r.scalar.s)

\* (faulty variant) a whitelist satisfied by one listed element
WhitelistedAny(V, r) == \E v \in V : InR(v, r)

\* all(v in r for v in stream_info_dp)
Whitelisted(V, r) == \A v \in V : InR(v, r)

verify_rule(stream_rule, stream_info) ==
    LET datapoint == stream_rule.datapoint
        spec == stream_rule.spec
        \* a < b raises TypeError unless both are numbers or both strings
        Comparable(a, b) ==
            (IsNumber(a) /\ IsNumber(b)) \/ (a.ty = "str" /\ b.ty = "str")
        \* one specifier of the for loop: "pass" (the loop goes on), "fail"
        \* (return False) or the exception raised; V is the parsed info
        \* value as a set, r the parsed value of the specifier
        CheckSpecifier(dps, r, V) ==
            CASE dps \in {"max", "min"} ->
                   IF V = {} THEN "pass"
                   ELSE IF r.is_list \/ \E v \in V : ~Comparable(r.scalar, v)
                        THEN "TypeError"
                   ELSE IF \E v \in V : IF dps = "max" THEN Less(r.scalar, v)
                                        ELSE Less(v, r.scalar)
                        THEN "fail" ELSE "pass"
              [] dps \in {"blacklist", "whitelist"} ->
                   IF V = {} THEN "pass"
                   ELSE IF /\ ~r.is_list
                           /\ \/ r.scalar.ty /= "str"
                              \/ (CHOOSE v \in V : TRUE).ty /= "str"
                        THEN "TypeError"
                   ELSE IF dps = "blacklist"
                        THEN IF \E v \in V : InR(v, r)
                             THEN "fail" ELSE "pass"
                   ELSE IF Whitelisted(V, r) THEN "pass" ELSE "fail"
              [] OTHER -> "pass"
        \* for dps in stream_rule[datapoint], from the i-th item on
        RECURSIVE CheckSpecifiers(_, _, _)
        CheckSpecifiers(dps, i, V) ==
            LET \* c is what the i-th specifier does
                After(c) ==
                    IF c = "pass" THEN CheckSpecifiers(dps, i + 1, V)
                    ELSE IF c = "fail" THEN Return(PyBool(FALSE))
                    ELSE Raise(c)
                \* parsed is r, parsed
                Parsed(_r, parsed) ==
                    IF parsed.err /= "none" THEN Raise(parsed.err)
                    ELSE After(CheckSpecifier(
                                 dps[i].name,
                                 IF _r.is_list THEN RList(parsed.vals)
                                 ELSE RScalar(CHOOSE x \in parsed.vals : TRUE),
                                 V))
            IN  IF i > Len(dps) THEN Return(PyBool(TRUE))
                ELSE Parsed(dps[i].r,
                            ParseAll(IF dps[i].r.is_list THEN dps[i].r.list
                                     ELSE {dps[i].r.scalar}))
        \* weak_parse(stream_rule[datapoint]) == stream_info_dp
        Equals(p, data_is_set, stream_info_dp) ==
            IF p.err /= "none" THEN p
            \* a scalar never equals a set
            ELSE IF data_is_set THEN Return(PyBool(FALSE))
            ELSE Return(PyBool(\A v \in stream_info_dp : Eq(p.val, v)))
        \* stream_info_dp is the info value, parsed
        Verify(data_is_set, stream_info_dp) ==
            IF stream_info_dp.err /= "none" THEN Raise(stream_info_dp.err)
            ELSE IF ~spec.is_dict
            THEN Equals(weak_parse(spec.scalar), data_is_set, stream_info_dp.vals)
            ELSE CheckSpecifiers(spec.dps, 1, stream_info_dp.vals)
        Present(info) ==
            Verify(info.is_set,
                   ParseAll(IF info.is_set THEN info.set ELSE {info.scalar}))
    \* "Skipped because missing info"
    IN  IF datapoint \notin DOMAIN stream_info THEN Return(PyBool(FALSE))
        ELSE Present(stream_info[datapoint])

----------------------------------------------------------------------------
(* A client of verify_rule: a rule on codec and the info of a stream type  *)
(* with or without codec; an info set holds numbers only or strings only   *)

\* a map of at most MaxSpecifiers specifiers
MaxSpecifiers == 2

RuleInit ==
    LET RuleValues ==
            {PyInt(1), PyStr(<<"2", "k">>), PyStr(<<"h", "2", "6", "4">>),
             PyStr(<<"a", "v", "1">>)}
        Homogeneous(xs) ==
            \/ \A x \in xs : weak_parse(x).val.ty = "str"
            \/ \A x \in xs : weak_parse(x).val.ty /= "str"
        InfoValues ==
            {InfoScalar(x) : x \in RuleValues}
            \cup {InfoSet(xs) : xs \in {ys \in SUBSET RuleValues : Homogeneous(ys)}}
        Specifiers ==
            {Specifier(name, r) :
                name \in {"max", "min"},
                r \in {RScalar(x) : x \in RuleValues} \cup {RList({PyInt(1)})}}
            \cup {Specifier(name, r) :
                    name \in {"blacklist", "whitelist"},
                    r \in {RList(xs) : xs \in SUBSET RuleValues}
                          \cup {RScalar(PyInt(1)),
                                RScalar(PyStr(<<"h", "2", "6", "4">>))}}
        SpecDicts ==
            {SpecDict(dps) :
                dps \in {d \in UNION {[1..k -> Specifiers] : k \in 0..MaxSpecifiers} :
                            \A i, j \in DOMAIN d : i /= j => d[i].name /= d[j].name}}
        StreamInfos ==
            {[k \in {} |-> InfoScalar(PyNone)]}
            \cup {[k \in {"codec"} |-> v] : v \in InfoValues}
    IN  /\ Idle
        /\ cwd_files = {}
        /\ \E spec \in SpecDicts \cup {SpecScalar(x) : x \in RuleValues} :
           \E stream_info \in StreamInfos :
              last = Pending([stream_rule |-> StreamRule("codec", spec),
                              stream_info |-> stream_info])

VerifyRule ==
    /\ last.op = "none"
    /\ LET Done(res) ==
               Applied("verify_rule", last.arg,
                       IF res.err = "none" THEN {res.val.n = 1} ELSE {}, res.err)
       IN  last' = Done(verify_rule(last.arg.stream_rule, last.arg.stream_info))
    /\ UNCHANGED <<cwd_files, idle>>

RuleSpec == RuleInit /\ [][VerifyRule]_vars

\* the call last made or to make, and its info value parsed, as a set
TheRule == last.arg.stream_rule
TheInfo == last.arg.stream_info
DatapointPresent == TheRule.datapoint \in DOMAIN TheInfo
ParsedInfo ==
    LET info == TheInfo[TheRule.datapoint]
    IN  {weak_parse(x).val : x \in (IF info.is_set THEN info.set ELSE {info.scalar})}

\* C17: a rule whose datapoint is absent from the info map does not
\* invalidate: verify_rule does not return False for it
C17_MissingDatapointSkipped ==
    (last.op = "verify_rule" /\ ~DatapointPresent) => last.out = {TRUE}

\* C18: a rule whose spec is a bare scalar admits iff weak_parse(spec)
\* equals the parsed info value, and, when the info value is a set, iff
\* every element of it equals weak_parse(spec)
C18_ScalarSpecAdmits ==
    (/\ last.op = "verify_rule"
     /\ DatapointPresent
     /\ ~TheRule.spec.is_dict)
    => /\ last.err = "none"
       /\ last.out = {\A v \in ParsedInfo :
                         Eq(weak_parse(TheRule.spec.scalar).val, v)}

\* a specifier passes, in the words of the claim
Passes(specifier, V) ==
    LET r == specifier.r
        list == {weak_parse(x).val : x \in r.list}
        bound == weak_parse(r.scalar).val
    IN  CASE specifier.name = "max" -> \A v \in V : ~Less(bound, v)
          [] specifier.name = "min" -> \A v \in V : ~Less(v, bound)
          [] specifier.name = "blacklist" -> \A v \in V : ~InList(v, list)
          [] specifier.name = "whitelist" -> \A v \in V : InList(v, list)

\* blacklists and whitelists are lists
ListValued(spec) ==
    \A i \in DOMAIN spec.dps :
        spec.dps[i].name \in {"blacklist", "whitelist"} => spec.dps[i].r.is_list

\* C19: for a rule whose spec is a map of specifiers and whose datapoint
\* is present, verify_rule, when it returns, returns true iff every
\* specifier passes: max iff all elements <= max, min iff all elements
\* >= min, blacklist iff no element is listed, whitelist iff all are
C19_SpecifiersAdmit ==
    (/\ last.op = "verify_rule"
     /\ DatapointPresent
     /\ TheRule.spec.is_dict
     /\ ListValued(TheRule.spec)
     /\ last.err = "none")
    => last.out = {\A i \in DOMAIN TheRule.spec.dps :
                      Passes(TheRule.spec.dps[i], ParsedInfo)}

\* codec whitelist [h264, av1] and blacklist [2k] admit the codecs {h264}
C19_Witness ==
    /\ last.op = "verify_rule"
    /\ DatapointPresent
    /\ TheRule.spec = SpecDict(<<
          Specifier("whitelist", RList({PyStr(<<"h", "2", "6", "4">>),
                                        PyStr(<<"a", "v", "1">>)})),
          Specifier("blacklist", RList({PyStr(<<"2", "k">>)})) >>)
    /\ TheInfo["codec"] = InfoSet({PyStr(<<"h", "2", "6", "4">>)})
    /\ last.out = {TRUE}

----------------------------------------------------------------------------
(* recipe.py: weak_leaf_parse, Recipe.__init__, match_dp_specifier,        *)
(* match_actual_argument and Recipe.load_arguments.  A parsed tree is a    *)
(* dict, a list or a leaf holding a Python scalar:                         *)
(*   ty  "dict", "list", "leaf", or "raise" with the errors err that the   *)
(*       call can leave with                                               *)

Parsed(ty, leaf, kids, items, err) ==
    [ty |-> ty, leaf |-> leaf, kids |-> kids, items |-> items, err |-> err]

RECURSIVE weak_leaf_parse(_)
weak_leaf_parse(tree) ==
    LET \* the characters of the strings of the documents
        chars(atom) ==
            CASE atom = "" -> <<>>
              [] atom = "0" -> <<"0">> [] atom = "1" -> <<"1">>
              [] atom = "3" -> <<"3">> [] atom = "4" -> <<"4">>
              [] atom = "5" -> <<"5">> [] atom = "6" -> <<"6">>
              [] atom = "8" -> <<"8">> [] atom = "1.5" -> <<"1", ".", "5">>
              [] atom = "2M" -> <<"2", "M">> [] atom = "2 s" -> <<"2", " ", "s">>
              [] atom = "a" -> <<"a">> [] atom = "d" -> <<"d">>
              [] atom = "p" -> <<"p">> [] atom = "s" -> <<"s">>
              [] atom = "v" -> <<"v">> [] atom = "x" -> <<"x">>
              [] atom = "a6" -> <<"a", "6">>
              [] atom = "mkv" -> <<"m", "k", "v">>
              [] atom = "int" -> <<"i", "n", "t">>
              [] atom = "str" -> <<"s", "t", "r">>
              [] atom = "bool" -> <<"b", "o", "o", "l">>
              [] atom = "float" -> <<"f", "l", "o", "a", "t">>
              [] atom = "h264" -> <<"h", "2", "6", "4">>
        \* the Python value of a scalar of a document
        Python(v) ==
            CASE v.ty = "str" -> PyStr(chars(v.atom))
              [] v.ty = "int" -> int(chars(v.atom)).val
              [] v.ty = "float" -> float(chars(v.atom)).val
              [] v.ty = "bool" -> PyBool(v.atom = "True")
              [] OTHER -> PyNone
        Leaf(r) ==
            IF r.err = "none" THEN Parsed("leaf", r.val, NoKids, <<>>, {})
            ELSE Parsed("raise", PyNone, NoKids, <<>>, {r.err})
        \* a collection of the parsed subtrees subs: a subtree that raises
        \* ends the call
        Collection(ty, subs, kids, items) ==
            IF \E s \in subs : s.ty = "raise"
            THEN Parsed("raise", PyNone, NoKids, <<>>,
                        UNION {s.err : s \in subs})
            ELSE Parsed(ty, PyNone, kids, items, {})
        DictOf(pairs) ==
            Collection("dict", {p[2] : p \in pairs},
                       [k \in {p[1] : p \in pairs} |->
                           (CHOOSE p \in pairs : p[1] = k)[2]], <<>>)
        ListOf(pairs) ==
            Collection("list", {p[2] : p \in pairs}, NoKids,
                       [i \in 1..Cardinality(pairs) |->
                           (CHOOSE p \in pairs : p[1] = i)[2]])
    IN  IF tree.ty = "dict"
        THEN DictOf({<<k, weak_leaf_parse(tree.kids[k])>> : k \in DOMAIN tree.kids})
        ELSE IF tree.ty = "list"
        THEN ListOf({<<i, weak_leaf_parse(tree.items[i])>> : i \in DOMAIN tree.items})
        ELSE IF tree.ty = "str" THEN Leaf(weak_parse(Python(tree)))
        ELSE Leaf(Return(Python(tree)))

\* Recipe(recipe): self.recipe, or the errors the constructor can leave with
Recipe(recipe) ==
    LET Fails(err) == Parsed("raise", PyNone, NoKids, <<>>, {err})
        \* assertTrue(self.recipe is not None, "Invalid recipe")
        Asserted(self_recipe) ==
            IF self_recipe.ty = "leaf" /\ self_recipe.leaf = PyNone
            THEN Fails("AssertionError")
            ELSE self_recipe
        \* validated[KW_RECIPE_ROOT]
        Root(validated) ==
            IF validated = Raised THEN Fails("Exception")
            ELSE IF validated.ty /= "dict" THEN Fails("TypeError")
            ELSE IF "recipe" \notin DOMAIN validated.kids THEN Fails("KeyError")
            ELSE Asserted(weak_leaf_parse(validated.kids["recipe"]))
    IN  Root(validate(RECIPE_STRUCTURE, {}, recipe).val)

\* match_dp_specifier(rules, value): a bool, or TypeError of a comparison
\* or of a membership test that Python does not define
match_dp_specifier(rules, value) ==
    LET is_numeric == value.ty \in {"int", "float", "bool"}
        Has(dps) == dps \in DOMAIN rules
        \* value < bound and value > bound are defined between numbers
        Ordered(dps) == rules[dps].ty = "leaf" /\ IsNumber(rules[dps].leaf)
        \* value in rules[dps]: in a list, or a string in a string
        Iterable(dps) ==
            \/ rules[dps].ty = "list"
            \/ rules[dps].ty = "leaf" /\ rules[dps].leaf.ty = "str"
                 /\ value.ty = "str"
        \* value in node: a list by its items
        InNode(node) ==
            IF node.ty = "list"
            THEN InR(value, RList({node.items[i].leaf : i \in DOMAIN node.items}))
            ELSE InR(value, RScalar(node.leaf))
        Whitelist ==
            IF ~Has("whitelist") THEN Return(PyBool(TRUE))
            ELSE IF ~Iterable("whitelist") THEN Raise("TypeError")
            ELSE Return(PyBool(InNode(rules["whitelist"])))
        Blacklist ==
            IF ~Has("blacklist") THEN Whitelist
            ELSE IF ~Iterable("blacklist") THEN Raise("TypeError")
            ELSE IF InNode(rules["blacklist"]) THEN Return(PyBool(FALSE))
            ELSE Whitelist
        Max ==
            IF ~Has("max") THEN Blacklist
            ELSE IF ~is_numeric THEN Return(PyBool(FALSE))
            ELSE IF ~Ordered("max") THEN Raise("TypeError")
            ELSE IF Less(rules["max"].leaf, value) THEN Return(PyBool(FALSE))
            ELSE Blacklist
    IN  IF ~Has("min") THEN Max
        ELSE IF ~is_numeric THEN Return(PyBool(FALSE))
        ELSE IF ~Ordered("min") THEN Raise("TypeError")
        ELSE IF Less(value, rules["min"].leaf) THEN Return(PyBool(FALSE))
        ELSE Max

\* match_actual_argument(arg_name, arg_rules, arg_value): the value cast to
\* the declared type, or RuntimeError for whatever went wrong
match_actual_argument(arg_rules, arg_value) ==
    LET ARGUMENT_TYPE_MAPPER ==
            (<<"s", "t", "r">> :> "str") @@ (<<"i", "n", "t">> :> "int")
              @@ (<<"f", "l", "o", "a", "t">> :> "float")
              @@ (<<"b", "o", "o", "l">> :> "bool")
        \* isinstance(arg_value, expected_type): a bool is an int
        isinstance(expected_type) ==
            \/ arg_value.ty = expected_type
            \/ expected_type = "int" /\ arg_value.ty = "bool"
        RECURSIVE Pow10(_)
        Pow10(k) == IF k = 0 THEN 1 ELSE 10 * Pow10(k - 1)
        digit(d) ==
            CASE d = 0 -> "0" [] d = 1 -> "1" [] d = 2 -> "2" [] d = 3 -> "3"
              [] d = 4 -> "4" [] d = 5 -> "5" [] d = 6 -> "6" [] d = 7 -> "7"
              [] d = 8 -> "8" [] d = 9 -> "9"
        \* the decimal digits of k >= 0, at least width of them
        RECURSIVE decimal(_, _)
        decimal(k, width) ==
            IF k < 10 /\ width <= 1 THEN <<digit(k)>>
            ELSE decimal(k \div 10, width - 1) \o <<digit(k % 10)>>
        sign(k) == IF k < 0 THEN <<"-">> ELSE <<>>
        abs(k) == IF k < 0 THEN -k ELSE k
        \* str(x)
        str(x) ==
            CASE x.ty = "int" -> sign(x.n) \o decimal(abs(x.n) * Pow10(x.e), 1)
              [] x.ty = "float" ->
                   IF x.e >= 0
                   THEN sign(x.n) \o decimal(abs(x.n) * Pow10(x.e), 1) \o <<".", "0">>
                   ELSE sign(x.n) \o decimal(abs(x.n) \div Pow10(-x.e), 1) \o <<".">>
                          \o decimal(abs(x.n) % Pow10(-x.e), -x.e)
              [] x.ty = "bool" ->
                   IF x.n = 1 THEN <<"T", "r", "u", "e">>
                   ELSE <<"F", "a", "l", "s", "e">>
              [] x.ty = "NoneType" -> <<"N", "o", "n", "e">>
        \* int(x) of a float truncates towards zero
        trunc(x) ==
            IF x.e >= 0 THEN PyInt(x.n * Pow10(x.e))
            ELSE IF x.n < 0 THEN PyInt(-((-x.n) \div Pow10(-x.e)))
            ELSE PyInt(x.n \div Pow10(-x.e))
        \* expected_type(arg_value)
        cast(expected_type) ==
            CASE expected_type = "str" -> Return(PyStr(str(arg_value)))
              [] expected_type = "int" ->
                   IF arg_value.ty = "str" THEN int(arg_value.s)
                   ELSE IF arg_value.ty = "float" THEN Return(trunc(arg_value))
                   ELSE Raise("TypeError")
              [] expected_type = "float" ->
                   IF arg_value.ty = "str" THEN float(arg_value.s)
                   ELSE IF IsNumber(arg_value)
                        THEN Return(Normal("float", arg_value.n, arg_value.e))
                   ELSE Raise("TypeError")
              [] expected_type = "bool" ->
                   Return(PyBool(IF arg_value.ty = "str" THEN arg_value.s /= <<>>
                                 ELSE arg_value.n /= 0))
        \* assertTrue(match_dp_specifier(arg_rules, arg_value), ...)
        Checked(value, matched) ==
            IF matched.err = "none" /\ matched.val = PyBool(TRUE)
            THEN Return(value) ELSE Raise("RuntimeError")
        Cast(value) ==
            IF value.err /= "none" THEN Raise("RuntimeError")
            ELSE Checked(value.val, match_dp_specifier(arg_rules.kids, value.val))
        \* ARGUMENT_TYPE_MAPPER[arg_rules[KW_ARGUMENT_TYPE]]
        Typed(type) ==
            IF type.ty /= "leaf" \/ type.leaf.ty /= "str"
                 \/ type.leaf.s \notin DOMAIN ARGUMENT_TYPE_MAPPER
            THEN Raise("RuntimeError")
            ELSE IF isinstance(ARGUMENT_TYPE_MAPPER[type.leaf.s])
            THEN Cast(Return(arg_value))
            ELSE Cast(cast(ARGUMENT_TYPE_MAPPER[type.leaf.s]))
    IN  IF arg_rules.ty /= "dict" \/ "type" \notin DOMAIN arg_rules.kids
        THEN Raise("RuntimeError")
        ELSE Typed(arg_rules.kids["type"])

\* Recipe.load_arguments(actual_arguments): the outcomes the call can have,
\* one for each item of the arguments that can be the first to raise (the
\* items are in the order of a set of strings); self.arguments is set when
\* the call returns
load_arguments(self_recipe, actual_arguments) ==
    LET Outcome(err, arguments) == [err |-> err, arguments |-> arguments]
        NoArguments == [a \in {} |-> Parsed("leaf", PyNone, NoKids, <<>>, {})]
        Item(arg_name, kind, val, err) ==
            [arg_name |-> arg_name, kind |-> kind, val |-> val, err |-> err]
        \* bool(x) of a parsed subtree
        Truthy(x) ==
            CASE x.ty = "dict" -> DOMAIN x.kids /= {}
              [] x.ty = "list" -> x.items /= <<>>
              [] x.leaf.ty = "str" -> x.leaf.s /= <<>>
              [] OTHER -> x.leaf.n /= 0
        KW_DEFAULT == <<"d", "e", "f", "a", "u", "l", "t">>
        \* KW_DEFAULT in arg_rules, when arg_rules is not a dict
        Contains(arg_rules) ==
            IF arg_rules.ty = "list"
            THEN \E i \in DOMAIN arg_rules.items :
                     arg_rules.items[i] = Parsed("leaf", PyStr(KW_DEFAULT), NoKids, <<>>, {})
            ELSE \E i \in 1..Len(arg_rules.leaf.s) :
                     SubSeq(arg_rules.leaf.s, i, i + Len(KW_DEFAULT) - 1) = KW_DEFAULT
        Matched(arg_name, m) ==
            IF m.err = "none"
            THEN Item(arg_name, "set", Parsed("leaf", m.val, NoKids, <<>>, {}), "none")
            ELSE Item(arg_name, "raise", Parsed("leaf", PyNone, NoKids, <<>>, {}), m.err)
        Fails(arg_name, err) ==
            Item(arg_name, "raise", Parsed("leaf", PyNone, NoKids, <<>>, {}), err)
        \* the body of the loop for one item
        Body(arg_name, arg_rules) ==
            IF arg_name \in DOMAIN actual_arguments
            THEN Matched(arg_name,
                         match_actual_argument(arg_rules, actual_arguments[arg_name]))
            ELSE IF arg_rules.ty = "dict"
            THEN IF "default" \in DOMAIN arg_rules.kids
                 THEN Item(arg_name, "set", arg_rules.kids["default"], "none")
                 ELSE IF "required" \in DOMAIN arg_rules.kids
                           /\ Truthy(arg_rules.kids["required"])
                 THEN Fails(arg_name, "ValueError")
                 ELSE Item(arg_name, "drop", arg_rules, "none")
            ELSE IF arg_rules.ty = "leaf" /\ arg_rules.leaf.ty /= "str"
            THEN Fails(arg_name, "TypeError")
            ELSE IF Contains(arg_rules) THEN Fails(arg_name, "TypeError")
            ELSE Fails(arg_name, "AttributeError")
        Loop(items) ==
            IF \E i \in items : i.kind = "raise"
            THEN {Outcome(i.err, NoArguments) : i \in {j \in items : j.kind = "raise"}}
            ELSE {Outcome("none",
                          [a \in {i.arg_name : i \in {j \in items : j.kind = "set"}} |->
                              (CHOOSE i \in items : i.arg_name = a).val])}
        Arguments(arguments) ==
            IF ~Truthy(arguments) THEN {Outcome("none", NoArguments)}
            ELSE IF arguments.ty /= "dict"
            THEN {Outcome("AttributeError", NoArguments)}
            ELSE Loop({Body(a, arguments.kids[a]) : a \in DOMAIN arguments.kids})
    IN  IF self_recipe.ty /= "dict" THEN {Outcome("TypeError", NoArguments)}
        ELSE IF "arguments" \notin DOMAIN self_recipe.kids
        THEN {Outcome("KeyError", NoArguments)}
        ELSE Arguments(self_recipe.kids["arguments"])

----------
(* A client of Recipe: a recipe document whose four required sections are  *)
(* well formed and whose arguments section is absent, empty, or declares   *)
(* q (and r) by a specification drawn from a few values of each key, then  *)
(* load_arguments of a few user-supplied maps.                             *)

ArgsInit ==
    LET StrV(s) == Scalar("str", s)
        IntV(s) == Scalar("int", s)
        D1(k, v) == Dict([x \in {k} |-> v])
        With(d, k, v) ==
            Dict([x \in DOMAIN d.kids \cup {k} |-> IF x = k THEN v ELSE d.kids[x]])
        ProcessorDoc ==
            With(D1("processor", StrV("p")), "parameters", D1("k", IntV("0")))
        RequiredDoc ==
            With(With(With(D1("input", D1("extension", D1("whitelist",
                                                        List(<<StrV("mkv")>>)))),
                           "stream-processor",
                           D1("video", With(ProcessorDoc, "case", List(<<>>)))),
                      "post-processing",
                      List(<<D1("case", List(<<D1("default", ProcessorDoc)>>))>>)),
                 "output", With(D1("directory", StrV("d")), "suffix", StrV("s")))
        Choices ==
            [k \in {"type", "required", "default", "min", "whitelist"} |->
                CASE k = "type" -> {StrV("int"), StrV("str"), StrV("float"),
                                    StrV("bool")}
                  [] k = "required" -> {Scalar("bool", "True"), Scalar("bool", "False")}
                  [] k = "default" -> {IntV("3"), StrV("2M"), StrV("a")}
                  [] k = "min" -> {IntV("5")}
                  [] k = "whitelist" -> {List(<<StrV("a"), StrV("6")>>)}]
        RECURSIVE Maps(_)
        Maps(keys) ==
            IF keys = {} THEN {Dict(NoKids)}
            ELSE LET k == CHOOSE x \in keys : TRUE
                 IN  LET rest == Maps(keys \ {k})
                     IN  rest \cup {With(d, k, v) : d \in rest, v \in Choices[k]}
        Bounded ==
            With(With(With(With(D1("type", StrV("float")), "required",
                                Scalar("bool", "False")), "default",
                           Scalar("float", "1.5")), "max", StrV("8")),
                 "blacklist", StrV("a6"))
        ArgumentRules == Maps(DOMAIN Choices) \cup {IntV("5"), Bounded}
        ArgumentsDocs ==
            {Dict(NoKids)} \cup {D1("q", rules) : rules \in ArgumentRules}
              \cup {With(D1("q", IntV("5")), "r", rules) :
                       rules \in {Bounded, D1("min", IntV("5"))}}
        RecipeDocs ==
            {RequiredDoc} \cup {With(RequiredDoc, "arguments", arguments) :
                                   arguments \in ArgumentsDocs}
        Values == {PyStr(<<"6">>), PyStr(<<"4">>), PyStr(<<"x">>), PyStr(<<"a">>),
                   PyInt(6), PyFloat(25, -1), PyBool(TRUE)}
        \* q as any value, the undeclared z, or r
        ActualArguments ==
            UNION {[names -> Values] : names \in {{}, {"q"}}}
              \cup {[a \in {"q", "z"} |-> IF a = "q" THEN v ELSE PyStr(<<"6">>)] :
                       v \in Values}
              \cup {[a \in {"z"} |-> PyStr(<<"6">>)], [a \in {"r"} |-> PyStr(<<"4">>)]}
    IN  /\ Idle
        /\ cwd_files = {}
        /\ \E recipe \in RecipeDocs, actual_arguments \in ActualArguments :
             last = Pending([recipe |-> With(D1("recode-engine", IntV("1")),
                                             "recipe", recipe),
                             actual_arguments |-> actual_arguments])

\* recipe = Recipe(_recipe)
NewRecipe ==
    /\ last.op = "none"
    /\ LET Done(self_recipe) ==
               IF self_recipe.ty = "raise"
               THEN {Applied("Recipe", last.arg, {}, err) : err \in self_recipe.err}
               ELSE {Applied("Recipe", last.arg, {self_recipe}, "none")}
       IN  last' \in Done(Recipe(last.arg.recipe))
    /\ UNCHANGED <<cwd_files, idle>>

\* recipe.load_arguments(actual_arguments): arg keeps the document and
\* self.recipe, out is self.arguments
LoadArguments ==
    /\ last.op = "Recipe"
    /\ \E self_recipe \in last.out :
         LET Done(outcomes) ==
                 {Applied("load_arguments",
                          [recipe |-> last.arg.recipe, self_recipe |-> self_recipe,
                           actual_arguments |-> last.arg.actual_arguments],
                          IF o.err = "none" THEN {o.arguments} ELSE {}, o.err) :
                    o \in outcomes}
         IN  last' \in Done(load_arguments(self_recipe, last.arg.actual_arguments))
    /\ UNCHANGED <<cwd_files, idle>>

ArgsSpec == ArgsInit /\ [][NewRecipe \/ LoadArguments]_vars

\* the argument specifications of self.recipe, by name, and the
\* user-supplied arguments of a call of load_arguments
Declared ==
    IF last.arg.self_recipe.ty = "dict"
         /\ "arguments" \in DOMAIN last.arg.self_recipe.kids
         /\ last.arg.self_recipe.kids["arguments"].ty = "dict"
    THEN last.arg.self_recipe.kids["arguments"].kids
    ELSE NoKids
Supplied == last.arg.actual_arguments

HasDefault(a) == Declared[a].ty = "dict" /\ "default" \in DOMAIN Declared[a].kids
IsRequired(a) ==
    /\ Declared[a].ty = "dict"
    /\ "required" \in DOMAIN Declared[a].kids
    /\ Declared[a].kids["required"].leaf = PyBool(TRUE)

\* C21: when load_arguments is called on a recipe with an arguments
\* section, each declared argument is resolved by precedence: a
\* user-supplied value is coerced and checked, and resolution fails when
\* that fails; else the default is used as it is; else resolution fails
\* with the missing-argument error when the argument is required; else the
\* argument is absent.  The resolved map has declared names only.
C21_Precedence ==
    (/\ last.op = "load_arguments"
     /\ last.arg.self_recipe.ty = "dict"
     /\ "arguments" \in DOMAIN last.arg.self_recipe.kids
     /\ last.arg.self_recipe.kids["arguments"].ty = "dict")
    => LET user == DOMAIN Declared \cap DOMAIN Supplied
           rejected ==
               {a \in user : match_actual_argument(Declared[a], Supplied[a]).err /= "none"}
           defaulted == {a \in DOMAIN Declared \ user : HasDefault(a)}
           missing ==
               {a \in DOMAIN Declared \ user : ~HasDefault(a) /\ IsRequired(a)}
       IN  IF rejected \cup missing /= {}
           THEN /\ last.err /= "none"
                /\ rejected = {} => last.err = "ValueError"
           ELSE /\ last.err = "none"
                /\ last.out =
                     {[a \in user \cup defaulted |->
                          IF a \in user
                          THEN Parsed("leaf",
                                      match_actual_argument(Declared[a], Supplied[a]).val,
                                      NoKids, <<>>, {})
                          ELSE Declared[a].kids["default"]]}

\* x is a scalar of the type that the characters type name
OfType(x, type) ==
    /\ x.ty = "leaf"
    /\ \/ type = <<"s", "t", "r">> /\ x.leaf.ty = "str"
       \/ type = <<"i", "n", "t">> /\ x.leaf.ty \in {"int", "bool"}
       \/ type = <<"f", "l", "o", "a", "t">> /\ x.leaf.ty = "float"
       \/ type = <<"b", "o", "o", "l">> /\ x.leaf.ty = "bool"

\* C22: when load_arguments returns, every resolved argument is a scalar
\* of its declared type that satisfies its declared min, max, whitelist
\* and blacklist
C22_ResolvedSatisfy ==
    (last.op = "load_arguments" /\ last.err = "none")
    => \A arguments \in last.out : \A a \in DOMAIN arguments :
           /\ "type" \in DOMAIN Declared[a].kids
           /\ Declared[a].kids["type"].ty = "leaf"
           /\ OfType(arguments[a], Declared[a].kids["type"].leaf.s)
           /\ match_dp_specifier(Declared[a].kids, arguments[a].leaf)
                = Return(PyBool(TRUE))

\* C23: a recipe with the four required sections, all of them kept by the
\* validator, and no arguments section is constructed without error, and
\* load_arguments then returns with no resolved argument
C23_ArgumentsOptional ==
    (/\ last.op \in {"Recipe", "load_arguments"}
     /\ DOMAIN last.arg.recipe.kids["recipe"].kids = RequiredSections)
    => /\ last.err = "none"
       /\ last.op = "Recipe" => \A self_recipe \in last.out :
              DOMAIN self_recipe.kids = RequiredSections
       /\ last.op = "load_arguments" => last.out = {<<>>}

\* C24: when validate returns, a stream-processor.<stream-type> node of the
\* document that lacks one of processor, parameters and case is rejected:
\* no key of it is accepted, so the validated node has no key
C24_AllThreeRequired ==
    last.op = "validate"
    => \A res \in last.out :
         LET Section(doc, key) ==
                 IF doc.ty = "dict" /\ key \in DOMAIN doc.kids
                 THEN doc.kids[key] ELSE None
             Given == Section(Section(last.arg, "recipe"), "stream-processor")
             Kept == Section(Section(res.val, "recipe"), "stream-processor")
         IN  \A stream_type \in DOMAIN Kept.kids :
                 (/\ Given.kids[stream_type].ty = "dict"
                  /\ ~({"processor", "parameters", "case"}
                         \subseteq DOMAIN Given.kids[stream_type].kids))
                 => DOMAIN Kept.kids[stream_type].kids = {}

----------------------------------------------------------------------------
(* utils.py: make_mkvmerge_merge_command_from_streams.  A stream is        *)
(* [media_file, stream_type, idx]; a media file is named by its path, or   *)
(* is "None".  An element of the command is a string written in the        *)
(* source (lit), a string computed by the code (its characters s), or a    *)
(* path (lit):                                                             *)
(*   ty  "str", "Path"                                                     *)

Stream(media_file, stream_type, idx) ==
    [media_file |-> media_file, stream_type |-> stream_type, idx |-> idx]

Element(ty, lit, s) == [ty |-> ty, lit |-> lit, s |-> s]

MKVMERGE_STREAM_TYPE_ARGUMENT ==
    << [stream_type |-> "VIDEO", yes |-> "--video-tracks", no |-> "--no-video"],
       [stream_type |-> "AUDIO", yes |-> "--audio-tracks", no |-> "--no-audio"],
       [stream_type |-> "SUBTITLE", yes |-> "--subtitle-tracks",
        no |-> "--no-subtitles"],
       [stream_type |-> "ATTACHMENT", yes |-> "--attachments",
        no |-> "--no-attachments"] >>

\* (faulty variant) the file of every input is appended
_source_files_appended(inputs) == [n \in DOMAIN inputs |-> inputs[n].media_file]

\* _source_files once the first loop is over: the media files of inputs,
\* each appended when first seen
_source_files(inputs) ==
    LET RECURSIVE Seen(_)
        Seen(n) ==
            LET Next_(files) ==
                    IF \E i \in DOMAIN files : files[i] = inputs[n].media_file
                    THEN files ELSE Append(files, inputs[n].media_file)
            IN  IF n = 0 THEN <<>> ELSE Next_(Seen(n - 1))
    IN  Seen(Len(inputs))

make_mkvmerge_merge_command_from_streams(executable, output, inputs, mode) ==
    LET digit(d) ==
            CASE d = 0 -> "0" [] d = 1 -> "1" [] d = 2 -> "2" [] d = 3 -> "3"
              [] d = 4 -> "4" [] d = 5 -> "5" [] d = 6 -> "6" [] d = 7 -> "7"
              [] d = 8 -> "8" [] d = 9 -> "9"
        \* str(i) of an int i >= 0
        RECURSIVE str(_)
        str(i) == IF i < 10 THEN <<digit(i)>> ELSE str(i \div 10) \o <<digit(i % 10)>>
        \* ",".join(parts)
        RECURSIVE join(_)
        join(parts) ==
            IF parts = <<>> THEN <<>>
            ELSE IF Len(parts) = 1 THEN parts[1]
            ELSE parts[1] \o <<",">> \o join(Tail(parts))
        RECURSIVE concat(_)
        concat(seqs) == IF seqs = <<>> THEN <<>> ELSE Head(seqs) \o concat(Tail(seqs))
        \* source_files.index(file)
        index(source_files, file) ==
            (CHOOSE i \in DOMAIN source_files :
                 /\ source_files[i] = file
                 /\ \A j \in 1..(i - 1) : source_files[j] /= file) - 1
        \* _stream_id[input_stream]
        _stream_id(source_files, input_stream) ==
            str(index(source_files, input_stream.media_file)) \o <<":">>
              \o str(input_stream.idx)
        \* _stream_per_file[_src_file].get(stream_type)
        _matching_stream_idxs(_src_file, stream_type) ==
            LET matching ==
                    SelectSeq(inputs, LAMBDA x : /\ x.media_file = _src_file
                                                 /\ x.stream_type = stream_type)
            IN  [i \in DOMAIN matching |-> matching[i].idx]
        Selector(rule, idxs) ==
            IF idxs /= <<>>
            THEN << Element("str", rule.yes, <<>>),
                    Element("str", "", join([i \in DOMAIN idxs |-> str(idxs[i])])) >>
            ELSE << Element("str", rule.no, <<>>) >>
        \* what the second loop appends for the idx-th source file (from 0)
        Source(source_files, idx) ==
            concat([t \in DOMAIN MKVMERGE_STREAM_TYPE_ARGUMENT |->
                       Selector(MKVMERGE_STREAM_TYPE_ARGUMENT[t],
                                _matching_stream_idxs(
                                    source_files[idx + 1],
                                    MKVMERGE_STREAM_TYPE_ARGUMENT[t].stream_type))])
              \o (IF idx > 0 /\ mode = "JOIN"
                  THEN <<Element("str", "+", <<>>)>> ELSE <<>>)
              \o <<Element("Path", source_files[idx + 1], <<>>)>>
        Crafted(source_files) ==
            << executable, Element("str", "--output", <<>>), output >>
              \o concat([i \in DOMAIN source_files |-> Source(source_files, i - 1)])
              \o (IF mode = "MERGE"
                  THEN << Element("str", "--track-order", <<>>),
                          Element("str", "",
                                  join([n \in DOMAIN inputs |->
                                           _stream_id(source_files, inputs[n])])) >>
                  ELSE <<>>)
    IN  IF \E n \in DOMAIN inputs : inputs[n].media_file = "None"
        THEN [err |-> "ValueError", cmd |-> <<>>]
        ELSE [err |-> "none", cmd |-> Crafted(_source_files(inputs))]

----------------------------------------------------------------------------
(* A client of make_mkvmerge_merge_command_from_streams: at most           *)
(* MaxInputs streams of two media files, or of none, in both modes         *)

MaxInputs == 3

CommandInit ==
    LET Streams ==
            {Stream(f, t, i) :
                f \in {"a.mkv", "b.mkv"},
                t \in {MKVMERGE_STREAM_TYPE_ARGUMENT[k].stream_type :
                         k \in DOMAIN MKVMERGE_STREAM_TYPE_ARGUMENT},
                i \in 0..1}
              \cup {Stream("None", "VIDEO", 0)}
    IN  /\ Idle
        /\ cwd_files = {}
        /\ \E n \in 0..MaxInputs, mode \in {"MERGE", "JOIN"} :
             \E inputs \in [1..n -> Streams] :
                last = Pending([inputs |-> inputs, mode |-> mode])

MakeCommand ==
    /\ last.op = "none"
    /\ LET Done(res) ==
               Applied("make_mkvmerge_merge_command_from_streams", last.arg,
                       IF res.err = "none" THEN {res.cmd} ELSE {}, res.err)
       IN  last' = Done(make_mkvmerge_merge_command_from_streams(
                            Element("str", "mkvmerge", <<>>),
                            Element("Path", "res.mkv", <<>>),
                            last.arg.inputs, last.arg.mode))
    /\ UNCHANGED <<cwd_files, idle>>

CommandSpec == CommandInit /\ [][MakeCommand]_vars

\* C25: when make_mkvmerge_merge_command_from_streams returns, the command
\* starts with the executable, --output and the output; it then lists each
\* source file of inputs once, in the order in which inputs first names
\* them; each source file is preceded, for each of the four stream types,
\* by exactly one of the selector of the type followed by the indices of
\* its streams of that type (when it has some) or the exclusion flag of the
\* type; in MERGE mode the command ends with --track-order and the
\* <file position>:<stream idx> of every input in the order of inputs, and
\* has no join marker; in JOIN mode every source file but the first is
\* right after a join marker, and the command has no --track-order
C25_CommandShape ==
    (last.op = "make_mkvmerge_merge_command_from_streams" /\ last.err = "none")
    => \A cmd \in last.out :
         LET inputs == last.arg.inputs
             Files == {inputs[n].media_file : n \in DOMAIN inputs}
             FirstSeen(f) ==
                 CHOOSE n \in DOMAIN inputs :
                     /\ inputs[n].media_file = f
                     /\ \A m \in 1..(n - 1) : inputs[m].media_file /= f
             \* the position of a file among the source files, from 0
             Rank(f) == Cardinality({g \in Files : FirstSeen(g) < FirstSeen(f)})
             PathAt == {p \in 4..Len(cmd) : cmd[p].ty = "Path"}
             Position(f) == CHOOSE p \in PathAt : cmd[p].lit = f
             \* where the arguments of the source file at p start
             Start(p) ==
                 1 + (CHOOSE q \in PathAt \cup {3} :
                          /\ q < p
                          /\ \A r \in PathAt : r < p => r <= q)
             Idxs(f, t) ==
                 LET matching ==
                         SelectSeq(inputs, LAMBDA x : /\ x.media_file = f
                                                      /\ x.stream_type = t)
                 IN  [i \in DOMAIN matching |-> matching[i].idx]
             Char(i) == CASE i = 0 -> "0" [] i = 1 -> "1" [] i = 2 -> "2"
             \* s is the numbers idxs, separated by commas
             IsList(s, idxs) ==
                 /\ Len(s) = 2 * Len(idxs) - 1
                 /\ \A j \in DOMAIN idxs :
                      /\ s[2 * j - 1] = Char(idxs[j])
                      /\ j < Len(idxs) => s[2 * j] = ","
             \* s is <file position>:<stream idx> of every input
             IsOrder(s) ==
                 /\ Len(s) = (IF inputs = <<>> THEN 0 ELSE 4 * Len(inputs) - 1)
                 /\ \A n \in DOMAIN inputs :
                      /\ s[4 * n - 3] = Char(Rank(inputs[n].media_file))
                      /\ s[4 * n - 2] = ":"
                      /\ s[4 * n - 1] = Char(inputs[n].idx)
                      /\ n < Len(inputs) => s[4 * n] = ","
             Has(lit) == \E p \in DOMAIN cmd : cmd[p] = Element("str", lit, <<>>)
         IN  /\ Len(cmd) >= 3
             /\ cmd[1] = Element("str", "mkvmerge", <<>>)
             /\ cmd[2] = Element("str", "--output", <<>>)
             /\ cmd[3] = Element("Path", "res.mkv", <<>>)
             /\ \A p \in PathAt : cmd[p].lit \in Files
             /\ \A f \in Files : Cardinality({p \in PathAt : cmd[p].lit = f}) = 1
             /\ \A f, g \in Files :
                  FirstSeen(f) < FirstSeen(g) => Position(f) < Position(g)
             /\ \A f \in Files : \A t \in DOMAIN MKVMERGE_STREAM_TYPE_ARGUMENT :
                  LET rule == MKVMERGE_STREAM_TYPE_ARGUMENT[t]
                      at == {q \in Start(Position(f))..(Position(f) - 1) :
                                cmd[q].lit \in {rule.yes, rule.no}}
                  IN  /\ Cardinality(at) = 1
                      /\ \A q \in at :
                           IF Idxs(f, rule.stream_type) /= <<>>
                           THEN /\ cmd[q].lit = rule.yes
                                /\ q + 1 < Position(f)
                                /\ IsList(cmd[q + 1].s, Idxs(f, rule.stream_type))
                           ELSE cmd[q].lit = rule.no
             /\ last.arg.mode = "MERGE"
                  => /\ Len(cmd) >= 5
                     /\ cmd[Len(cmd) - 1] = Element("str", "--track-order", <<>>)
                     /\ cmd[Len(cmd)].ty = "str"
                     /\ IsOrder(cmd[Len(cmd)].s)
                     /\ ~Has("+")
             /\ last.arg.mode = "JOIN"
                  => /\ \A f \in Files :
                          (Rank(f) > 0) <=> (cmd[Position(f) - 1] = Element("str", "+", <<>>))
                     /\ ~Has("--track-order")

\* a MERGE command of three inputs: two streams of one type of a file,
\* the later one first, and between them a stream of another file
C25_Witness ==
    /\ last.op = "make_mkvmerge_merge_command_from_streams"
    /\ last.out /= {}
    /\ last.arg.mode = "MERGE"
    /\ Len(last.arg.inputs) = 3
    /\ last.arg.inputs[1].media_file = last.arg.inputs[3].media_file
    /\ last.arg.inputs[1].media_file /= last.arg.inputs[2].media_file
    /\ last.arg.inputs[1].stream_type = last.arg.inputs[3].stream_type
    /\ last.arg.inputs[1].idx > last.arg.inputs[3].idx

----------------------------------------------------------------------------
(* Claims on the scheduler and on the steps                                *)

\* the stats files that the i-th run() wrote or copied: those of the name
\* a first pass gave to its next step, or of the name a second pass was
\* given
StatsOf(i) ==
    UNION {ffmpeg2pass_file_names(n) :
              n \in steps[log[i].step].ffmpeg2pass
                      \cup UNION {steps[c].ffmpeg2pass :
                                     c \in log[i].res.next_sprint_steps}}

\* C26: at every sprint boundary, and when the call has returned, no stats
\* file that a two-pass step has written or copied is in the current
\* directory
C26_NoStatsLeft ==
    pc \in {"while", "done"}
    => \A i \in LogIdx :
           (steps[log[i].step].kind = "twopass" /\ log[i].ok)
           => StatsOf(i) \cap cwd_files = {}

\* C27: when validate is given a document, it returns (it does not abort,
\* whatever the elements of the document's lists are: scalars, maps with
\* one key, with several or with none), and every list of the returned
\* document holds elements of the list at the same place of the input in
\* their input order, a kept single-key map keeping its key.
C27_ListDropsAndContinues ==
    LET RECURSIVE KeepsOrder(_, _)
        \* item o of the output comes from item i of the input
        From(o, i) ==
            IF o.ty = "dict"
            THEN /\ i.ty = "dict"
                 /\ DOMAIN o.kids = DOMAIN i.kids
                 /\ \A k \in DOMAIN o.kids : KeepsOrder(i.kids[k], o.kids[k])
            ELSE o = i
        KeepsOrder(in, out) ==
            CASE out.ty = "dict" ->
                   /\ in.ty = "dict"
                   /\ DOMAIN out.kids \subseteq DOMAIN in.kids
                   /\ \A k \in DOMAIN out.kids : KeepsOrder(in.kids[k], out.kids[k])
              [] out.ty = "list" ->
                   /\ in.ty = "list"
                   /\ \E at \in [DOMAIN out.items -> DOMAIN in.items] :
                         /\ \A a, b \in DOMAIN out.items : a < b => at[a] < at[b]
                         /\ \A a \in DOMAIN out.items :
                               From(out.items[a], in.items[at[a]])
              [] OTHER -> TRUE
    IN  last.op = "validate"
        => /\ last.err = "none"
           /\ \A res \in last.out : KeepsOrder(last.arg, res.val)

\* C28: constructing an MKVMergeProcessingStep with valid inputs, output
\* and mode and without a working directory (wd omitted, so None) raises
\* nothing and yields the instance, the step that run() is then called on.
C28_WdOptional ==
    (/\ last.op = "construct" /\ last.kind = "mkvmerge" /\ last.wd = "none"
     /\ ~C9_Invalid(last.mkv))
    => /\ last.outcome = "none"
       /\ last.step = Len(steps) /\ last.step > 0
       /\ steps[last.step].kind = "mkvmerge"

----------------------------------------------------------------------------
(* A client resolving a path against the grammar of a validator it built:  *)
(* DataStructureValidator(grammar).load_grammar_rule(path), the grammar a  *)
(* dict of up to MaxKeys keys in any insertion order, the root key one of  *)
(* them.                                                                   *)

MaxKeys == 4

ResolveInit ==
    LET \* keys of power 0.5, 1, 1.5 and 2; max and *.* have one length,
        \* streams is an end of nb-streams
        Keys == {<<"/">>, <<"*">>, <<"max">>, <<"*", "*">>, <<"streams">>,
                 <<"nb-streams">>, <<"*", "max">>, <<"case", "*">>,
                 <<"case", "max">>}
        Paths == {<<"/">>, <<"/", "case", "max">>, <<"/", "nb-streams">>,
                  <<"/", "min">>}
        \* the dicts with n of the keys, each key named after itself
        Dicts(n) ==
            {[keys |-> order, rule |-> [k \in {order[i] : i \in 1..n} |-> k]] :
                order \in {o \in [1..n -> Keys] :
                              \* assert Grammar.DICT_TREE_ROOT in grammar
                              /\ \E i \in 1..n : o[i] = <<"/">>
                              /\ \A i, j \in 1..n : o[i] = o[j] => i = j}}
    IN  /\ Idle
        /\ cwd_files = {}
        /\ \E n \in 1..MaxKeys : \E grammar \in Dicts(n) : \E path \in Paths :
             last = Pending([grammar |-> grammar, path |-> path])

\* out holds the key of the rule returned, NoKey for None
LoadGrammarRule ==
    /\ last.op = "none"
    /\ last' = Applied("load_grammar_rule", last.arg,
                       {load_grammar_rule(last.arg.grammar, last.arg.path)},
                       "none")
    /\ UNCHANGED <<cwd_files, idle>>

ResolveSpec == ResolveInit /\ [][LoadGrammarRule]_vars

\* C29: the rule load_grammar_rule returns for a path is the one it
\* returns for the same path when the entries of the schema were inserted
\* in any other order.
C29_OrderIndependent ==
    last.op = "load_grammar_rule"
    => LET keys == last.arg.grammar.keys
           n == Len(keys)
       IN  \A p \in {q \in [1..n -> 1..n] : \A i, j \in 1..n : q[i] = q[j] => i = j} :
              load_grammar_rule([keys |-> [i \in 1..n |-> keys[p[i]]],
                                 rule |-> last.arg.grammar.rule],
                                last.arg.path) \in last.out

\* C30: within one ProcessingStep_execute call no step instance has run()
\* invoked more than once, whether its emitters ran in one sprint or in
\* different sprints (every step graph here is a finite DAG: a step emits
\* only steps constructed after it).
C30_RunAtMostOnce ==
    \A i, j \in LogIdx : log[i].step = log[j].step => i = j

====
